---- MODULE Spec2Model ----
(***************************************************************************)
(* A model of the audio synthesis-and-assembly pipeline of AutoScribe-AI:  *)
(* content_generation/audio_gen.py (per-line generation, grouping,         *)
(* combination, track rendering) together with the configuration object of *)
(* content_generation/tts_backends.py.                                     *)
(*                                                                         *)
(* Strings are TLA+ strings, file names are built and compared character   *)
(* by character as Python does.  A path is the pair <<directory, name>>    *)
(* (os.path.join); the file system maps each existing path to its content. *)
(* The synthesis services (the HTTP backend, gTTS), the audio library and  *)
(* ffmpeg are external: each of their calls is a nondeterministic choice   *)
(* among raising and the contents it can leave on disk.                    *)
(***************************************************************************)
EXTENDS Integers, Sequences, FiniteSets, TLC

(***************************************************************************)
(* Bounds of the model.                                                    *)
(***************************************************************************)
MaxLines == 2      \* longest input script of a job that is run once
MaxCalls == 2      \* times a job is run when it is re-run
MaxLinesTwice == 1 \* longest input script of a job that is re-run
MaxIndex == 11     \* largest line index of a per-line file handed to grouping
MaxFiles == 2      \* longest per-line file list handed to grouping directly

(***************************************************************************)
(* Characters and strings (Python str semantics).                          *)
(***************************************************************************)
\* The printable ASCII characters in code-point order, from the blank (32) on.
\* The double quote (34), the backslash (92) and the backquote (96) are stood
\* for by a character no string of the model contains, so that every position
\* is right.
Printable ==
  " !~#$%&'()*+,-./0123456789:;<=>?@ABCDEFGHIJKLMNOPQRSTUVWXYZ[~]^_~abcdefghijklmnopqrstuvwxyz{|}"

CharAt(s, k) == SubSeq(s, k, k)

\* min(a, b)
Min(a, b) == IF a <= b THEN a ELSE b

\* ord(c), as a table over the characters
CodeTable ==
  [c \in {CharAt(Printable, k) : k \in 1..Len(Printable)} |->
     31 + (CHOOSE k \in 1..Len(Printable) : CharAt(Printable, k) = c)]

Code(c) == CodeTable[c]

\* str.lower() on one character, then on a string
LowerChar(c) ==
  LET n == Code(c) IN IF n >= 65 /\ n <= 90 THEN CharAt(Printable, n + 32 - 31) ELSE c

RECURSIVE Lower(_)
Lower(s) == IF s = "" THEN "" ELSE LowerChar(CharAt(s, 1)) \o Lower(Tail(s))

\* str.strip(); a blank is the only white space in the strings of the model
RECURSIVE LStrip(_)
LStrip(s) == IF s # "" /\ CharAt(s, 1) = " " THEN LStrip(Tail(s)) ELSE s

RECURSIVE RStrip(_)
RStrip(s) ==
  IF s # "" /\ CharAt(s, Len(s)) = " " THEN RStrip(SubSeq(s, 1, Len(s) - 1)) ELSE s

Strip(s) == LStrip(RStrip(s))

StartsWith(s, pre) == Len(s) >= Len(pre) /\ SubSeq(s, 1, Len(pre)) = pre

EndsWith(s, suf) ==
  Len(s) >= Len(suf) /\ SubSeq(s, Len(s) - Len(suf) + 1, Len(s)) = suf

\* sub in s
Contains(s, sub) ==
  \E k \in 1..(Len(s) - Len(sub) + 1) : SubSeq(s, k, k + Len(sub) - 1) = sub

\* s.split(sep, 1)[0]
RECURSIVE BeforeFirst(_, _)
BeforeFirst(s, sep) ==
  IF s = "" \/ StartsWith(s, sep) THEN ""
  ELSE CharAt(s, 1) \o BeforeFirst(Tail(s), sep)

\* s.replace(old, new)
RECURSIVE Replace(_, _, _)
Replace(s, old, new) ==
  IF s = "" THEN ""
  ELSE IF StartsWith(s, old)
       THEN new \o Replace(SubSeq(s, Len(old) + 1, Len(s)), old, new)
       ELSE CharAt(s, 1) \o Replace(Tail(s), old, new)

\* a < b for Python strings: code point by code point, a proper prefix first
RECURSIVE StrLess(_, _)
StrLess(a, b) ==
  IF b = "" THEN FALSE
  ELSE IF a = "" THEN TRUE
  ELSE IF CharAt(a, 1) = CharAt(b, 1) THEN StrLess(Tail(a), Tail(b))
  ELSE Code(CharAt(a, 1)) < Code(CharAt(b, 1))

\* "%d" % n, n >= 0
RECURSIVE IntToStr(_)
IntToStr(n) ==
  IF n < 10 THEN CharAt("0123456789", n + 1)
  ELSE IntToStr(n \div 10) \o CharAt("0123456789", (n % 10) + 1)

(***************************************************************************)
(* Paths.                                                                  *)
(***************************************************************************)
AudioRoot == "out"
TmpDir == "out/.tmp"

Join(dir, name) == <<dir, name>>
Dirname(p) == p[1]
Basename(p) == p[2]
PathStr(p) == p[1] \o "/" \o p[2]

\* sorted(list of paths): insertion into an ordered list, as a stable sort
RECURSIVE InsertSorted(_, _)
InsertSorted(p, s) ==
  IF s = <<>> THEN <<p>>
  ELSE IF StrLess(PathStr(p), PathStr(Head(s))) THEN <<p>> \o s
  ELSE <<Head(s)>> \o InsertSorted(p, Tail(s))

RECURSIVE Sorted(_)
Sorted(s) ==
  IF s = <<>> THEN <<>>
  ELSE InsertSorted(s[Len(s)], Sorted(SubSeq(s, 1, Len(s) - 1)))

(***************************************************************************)
(* The pure functions of audio_gen.py.                                     *)
(***************************************************************************)
\* re.sub(r"\s+", " ", text): runs of blanks become one blank
RECURSIVE CollapseBlanks(_)
CollapseBlanks(s) ==
  IF Len(s) < 2 THEN s
  ELSE IF CharAt(s, 1) = " " /\ CharAt(s, 2) = " " THEN CollapseBlanks(Tail(s))
  ELSE CharAt(s, 1) \o CollapseBlanks(Tail(s))

\* the characters re.sub(r"[^a-z0-9\- _.]", "", text) keeps
SafeChar(c) ==
  LET n == Code(c)
  IN (n >= 97 /\ n <= 122) \/ (n >= 48 /\ n <= 57) \/ c \in {"-", " ", "_", "."}

RECURSIVE KeepSafe(_)
KeepSafe(s) ==
  IF s = "" THEN ""
  ELSE (IF SafeChar(CharAt(s, 1)) THEN CharAt(s, 1) ELSE "") \o KeepSafe(Tail(s))

MaxNameLen == 80

SanitizeFilename(text) ==
  LET t1 == Lower(Strip(text))
      t2 == CollapseBlanks(t1)
      t3 == Replace(t2, "/", "-")
      t4 == KeepSafe(t3)
      t5 == Replace(t4, " ", "_")
  IN IF Len(t5) > MaxNameLen THEN SubSeq(t5, 1, MaxNameLen) ELSE t5

\* "%d%s" % (n, "tsnrhtdd"[k::4]) with k as the source computes it
Ordinal(n) ==
  LET a == IF (n \div 10) % 10 # 1 THEN 1 ELSE 0
      b == IF n % 10 < 4 THEN 1 ELSE 0
      k == (a * b * n) % 10
  IN IntToStr(n) \o CharAt("tsnrhtdd", k + 1) \o CharAt("tsnrhtdd", k + 5)

\* _today_token() on the day of the run: f"{day:02d} {mon}_"
TodayToken == "04 nov_"

\* the speaker of a line, "" standing for None
SpeakerOf(line) ==
  LET prefix == IF Contains(line, ":") THEN Lower(Strip(BeforeFirst(line, ":"))) ELSE ""
  IN IF prefix \in {"rick"} THEN "rick"
     ELSE IF prefix \in {"morty"} THEN "morty"
     ELSE IF prefix \in {"djcara", "dj cara", "cara"} THEN "djcara"
     ELSE ""

\* clean_line, the text create_dialogue_audio hands to synthesis: the
\* speaker prefixes replaced by nothing wherever they stand, and for rick
\* " ".join(clean_line.split("*burp*"))
CleanLine(line) ==
  LET t == Replace(Replace(Replace(Replace(Replace(line,
             "Rick: ", ""), "Morty: ", ""), "DJCARA: ", ""), "DJ Cara: ", ""), "Cara: ", "")
  IN IF SpeakerOf(line) = "rick" THEN Replace(t, "*burp*", " ") ELSE t

\* the path create_dialogue_audio gives the line at index idx (from 0)
\* (faulty variant: the detected speaker is not used in the name)
LineFilePathGeneric(output_dir, line, idx) ==
  Join(output_dir, "speaker" \o "_line_" \o IntToStr(idx) \o ".mp3")

\* (faulty variant: the lines are numbered from 1)
LineFilePathFromOne(output_dir, line, idx) ==
  LET speaker == SpeakerOf(line)
      character == IF speaker # "" THEN speaker ELSE "speaker"
  IN Join(output_dir, character \o "_line_" \o IntToStr(idx + 1) \o ".mp3")

LineFilePath(output_dir, line, idx) ==
  LET speaker == SpeakerOf(line)
      character == IF speaker # "" THEN speaker ELSE "speaker"
  IN Join(output_dir, character \o "_line_" \o IntToStr(idx) \o ".mp3")

\* the key of a per-line file in the grouping
GroupKeyOf(fp, default_speaker) ==
  LET base == Basename(fp)
  IN IF StartsWith(base, "rick_") THEN "rick"
     ELSE IF StartsWith(base, "morty_") THEN "morty"
     ELSE Lower(IF default_speaker # "" THEN default_speaker ELSE "speaker")

\* the keys in first-seen order (the insertion order of the dict)
RECURSIVE UniqueSpeakersInOrder(_, _)
UniqueSpeakersInOrder(files, default_speaker) ==
  IF files = <<>> THEN <<>>
  ELSE LET init == UniqueSpeakersInOrder(SubSeq(files, 1, Len(files) - 1), default_speaker)
           s == GroupKeyOf(files[Len(files)], default_speaker)
       IN IF \E k \in 1..Len(init) : init[k] = s THEN init ELSE Append(init, s)

\* the files of one key, in list order
FilesOfKey(files, key, default_speaker) ==
  SelectSeq(files, LAMBDA fp : GroupKeyOf(fp, default_speaker) = key)

\* the order a group's files are given for combination
GroupOrder(files) == Sorted(files)

\* the dict of groups as the sequence of its items <<key, files>>
GroupLineFilesBySpeaker(files, default_speaker) ==
  LET keys == UniqueSpeakersInOrder(files, default_speaker)
  IN [k \in 1..Len(keys) |->
        <<keys[k], GroupOrder(FilesOfKey(files, keys[k], default_speaker))>>]

(***************************************************************************)
(* The environment and the configuration object (tts_backends.TTSConfig).  *)
(***************************************************************************)
Unset == "<unset>"

\* The environment of a run is a record of the variables the pipeline reads
\* and of whether the import of pydub succeeded.
EnvVars == {"CHATTERBOX_BASE_URL", "TTS_RESPONSE_FORMAT", "TTS_REQUIRE_SERVER"}

\* os.getenv(k) or None, "" standing for None
GetenvOrNone(e, k) == IF e[k] = Unset THEN "" ELSE e[k]

\* cfg.base_url
CfgBaseUrl(e) == GetenvOrNone(e, "CHATTERBOX_BASE_URL")

\* cfg.response_format
CfgResponseFormat(e) ==
  LET base_url == CfgBaseUrl(e)
      default_fmt == IF base_url # "" /\ Contains(base_url, "8014") THEN "wav" ELSE "mp3"
  IN IF e.TTS_RESPONSE_FORMAT = Unset THEN default_fmt ELSE e.TTS_RESPONSE_FORMAT

\* the attributes a TTSConfig object has
TTSConfigAttrs ==
  {"base_url", "api_key", "model", "default_voice", "djcara_voice",
   "response_format", "temperature", "exaggeration", "cfg_weight",
   "speed_factor", "seed", "chunk_size", "split_text", "sample_rate", "language"}

\* get_tts_backend() is not None
BackendConfigured(e) == CfgBaseUrl(e) # ""

\* _persona_default_tts_params(label, cfg) raises AttributeError: it reads
\* cfg.djcara_temperature for the persona djcara
PersonaParamsRaises(label) ==
  Lower(Strip(label)) = "djcara" /\ "djcara_temperature" \notin TTSConfigAttrs

(***************************************************************************)
(* The file system.                                                        *)
(***************************************************************************)
MinValidBytes == 1024

DirEntry == [dir |-> TRUE, size |-> 0, dec |-> FALSE]
Good == [dir |-> FALSE, size |-> 2048, dec |-> TRUE]

\* what a synthesis call can leave on disk: a sound file, a file too short
\* (an error page, a truncated download), a file of the right size that does
\* not decode
Contents ==
  {Good, [dir |-> FALSE, size |-> 512, dec |-> TRUE],
         [dir |-> FALSE, size |-> 2048, dec |-> FALSE]}

EmptyFs == [p \in {} |-> Good]

Exists(f, p) == p \in DOMAIN f

Put(f, p, c) == [q \in DOMAIN f \cup {p} |-> IF q = p THEN c ELSE f[q]]

Remove(f, ps) == [q \in DOMAIN f \ ps |-> f[q]]

\* os.replace(src, dst)
Move(f, src, dst) == Remove(Put(f, dst, f[src]), {src})

DirPath(d) == IF d = TmpDir THEN <<AudioRoot, ".tmp">> ELSE <<".", d>>

\* os.makedirs(d, exist_ok=True)
Mkdir(f, d) ==
  LET f1 == IF Exists(f, DirPath(AudioRoot)) THEN f ELSE Put(f, DirPath(AudioRoot), DirEntry)
  IN IF d = AudioRoot \/ Exists(f1, DirPath(d)) THEN f1 ELSE Put(f1, DirPath(d), DirEntry)

\* os.listdir(d)
ListDir(f, d) == {p[2] : p \in {q \in DOMAIN f : q[1] = d}}

\* the walk that empties and removes the temporary directory
RemoveTree(f, d) == Remove(f, {q \in DOMAIN f : q[1] = d} \cup {DirPath(d)})

\* _is_valid_mp3(path)
\* (faulty variant: the size threshold is not checked)
IsValidMp3NoSize(f, p, pydub) ==
  Exists(f, p) /\ (pydub => f[p].dec)

\* (faulty variant: the file is not decoded)
IsValidMp3NoProbe(f, p, pydub) ==
  Exists(f, p) /\ f[p].size >= MinValidBytes

IsValidMp3(f, p, pydub) ==
  /\ Exists(f, p)
  /\ f[p].size >= MinValidBytes
  /\ (pydub => f[p].dec)

\* the files of the output directory counted for a label on a date
ExistingFor(f, prefix_label, date_token) ==
  {name \in ListDir(f, AudioRoot) :
     /\ StartsWith(name, prefix_label \o "_")
     /\ Contains(name, "_" \o date_token)
     /\ EndsWith(name, ".mp3")}

\* (faulty variant: the count itself, not one more)
NextOrdinalNumberFromZero(f, prefix_label, date_token) ==
  Cardinality(ExistingFor(f, prefix_label, date_token))

NextOrdinalNumber(f, prefix_label, date_token) ==
  Cardinality(ExistingFor(f, prefix_label, date_token)) + 1

\* {label}_{safe_title}_{date_token}{ordinal}
BaseName(lbl, safe_title, date_token, n) ==
  lbl \o "_" \o safe_title \o "_" \o date_token \o Ordinal(n)

(***************************************************************************)
(* _combine_mp3s(file_list, output_path), the external tool succeeding     *)
(* (tool_ok) or failing.  The result: whether it raised, the file system   *)
(* it leaves, and whether it made the directory and ran a tool.            *)
(***************************************************************************)
CombinedContent(f, file_list) ==
  [dir |-> FALSE,
   size |-> IF \E k \in 1..Len(file_list) : f[file_list[k]].size >= MinValidBytes
            THEN 2048 ELSE 512,
   dec |-> \A k \in 1..Len(file_list) : f[file_list[k]].dec]

CombineBody(f, file_list, output_path, pydub, tool_ok) ==
  LET f1 == Mkdir(f, Dirname(output_path))
      readable == \A k \in 1..Len(file_list) : Exists(f, file_list[k])
      decodable == readable /\ \A k \in 1..Len(file_list) : f[file_list[k]].dec
  IN IF pydub
     THEN IF decodable /\ tool_ok
          THEN [raised |-> FALSE, exc |-> "", fs |-> Put(f1, output_path, CombinedContent(f, file_list)),
                mkdir |-> TRUE, proc |-> TRUE]
          ELSE [raised |-> TRUE, exc |-> "CombineError", fs |-> f1,
                mkdir |-> TRUE, proc |-> decodable]
     ELSE IF readable /\ tool_ok
          THEN [raised |-> FALSE, exc |-> "", fs |-> Put(f1, output_path, CombinedContent(f, file_list)),
                mkdir |-> TRUE, proc |-> TRUE]
          ELSE [raised |-> TRUE, exc |-> "CombineError", fs |-> f1,
                mkdir |-> TRUE, proc |-> TRUE]

\* the runs of a tool _combine_mp3s makes: the export of the library, or
\* ffmpeg copying the streams of the concat list; each with its inputs in
\* order and whether it worked
CombineMp3sRuns(f, file_list, pydub, tool_ok) ==
  IF file_list = <<>> THEN <<>>
  ELSE <<[strategy |-> IF pydub THEN "library" ELSE "copy", inputs |-> file_list,
          ok |-> ~CombineBody(f, file_list, <<"", "">>, pydub, tool_ok).raised]>>

\* (faulty variant: the empty list is not rejected)
CombineMp3sNoGuard(f, file_list, output_path, pydub, tool_ok) ==
  CombineBody(f, file_list, output_path, pydub, tool_ok)

CombineMp3s(f, file_list, output_path, pydub, tool_ok) ==
  IF file_list = <<>>
  THEN [raised |-> TRUE, exc |-> "ValueError", fs |-> f, mkdir |-> FALSE, proc |-> FALSE]
  ELSE CombineBody(f, file_list, output_path, pydub, tool_ok)

(***************************************************************************)
(* The inputs of a run.                                                    *)
(***************************************************************************)
Lines == {"Rick: Hello *burp* world", "Morty: Oh geez", "Cara: yo", "so anyway"}

ScriptsUpTo(max) == UNION {[1..n -> Lines] : n \in 0..max}

Titles == {"AITA / Cat Facts!"}

Monologue == "Right, it's DJ Cara. Today's agenda: X."

\* a job: the API function called and its arguments, the empty string
\* standing for None.  One behaviour runs one job, once or several times.
JobOf(fn, dialogue, title, label, default_speaker, cleanup_parts, single_track, force_gtts, file_list) ==
  [fn |-> fn, dialogue |-> dialogue, title |-> title, label |-> label,
   default_speaker |-> default_speaker, cleanup_parts |-> cleanup_parts,
   single_track |-> single_track, force_gtts |-> force_gtts, file_list |-> file_list]

MultiTrackJobs(scripts) ==
  {JobOf("render_combined_audio", d, t, "", ds, c, FALSE, FALSE, <<>>) :
     d \in scripts, t \in Titles, ds \in {"", "Host"}, c \in BOOLEAN}

SingleTrackJobs ==
  {JobOf("render_combined_audio", <<"Cara: yo", "so anyway">>, t, l, "", c, TRUE, FALSE, <<>>) :
     t \in Titles, l \in {"", "djcara", "Narrator"}, c \in BOOLEAN}

\* render_single_track_text(script, title, audio_dir, label)
SingleTrackTextJobs ==
  {JobOf("render_single_track_text", <<Monologue>>, t, l, "", TRUE, TRUE, FALSE, <<>>) :
     t \in Titles, l \in {"", "djcara", "Narrator"}}

CreateDialogueAudioJobs(scripts) ==
  {JobOf("create_dialogue_audio", d, "", "", "", TRUE, FALSE, g, <<>>) :
     d \in scripts, g \in BOOLEAN}

CombineJobs ==
  {JobOf("_combine_mp3s", <<>>, "", "", "", TRUE, FALSE, FALSE, fl) :
     fl \in {<<>>, <<Join(TmpDir, "rick_line_0.mp3")>>}}

\* The environments a job is run in: a variable the job never reads is
\* left unset.  The multi-track path and create_dialogue_audio read the base
\* URL only; the response format (wav for the port 8014, else mp3) and
\* TTS_REQUIRE_SERVER are read on the single-track path; _combine_mp3s and
\* _group_line_files_by_speaker read no variable.
EnvOf(base_url, require_server, pydub) ==
  [CHATTERBOX_BASE_URL |-> base_url, TTS_RESPONSE_FORMAT |-> Unset,
   TTS_REQUIRE_SERVER |-> require_server, pydub |-> pydub]

(***************************************************************************)
(* The settings ChatterboxTTSBackend reads, and the server it talks to.    *)
(***************************************************************************)
\* the largest retry bound and the largest poll timeout (in seconds) tried
MaxRetries == 2

MaxTimeout == 2

\* str.isdigit() and int() of a string of digits
IsDigit(s) ==
  s # "" /\ \A k \in 1..Len(s) : CharAt(s, k) \in {IntToStr(d) : d \in 0..9}

RECURSIVE ParseInt(_)
ParseInt(s) ==
  IF s = "" THEN 0
  ELSE 10 * ParseInt(SubSeq(s, 1, Len(s) - 1))
         + (CHOOSE d \in 0..9 : IntToStr(d) = CharAt(s, Len(s)))

\* attempts = int(os.getenv("CHATTERBOX_DOWNLOAD_RETRIES", "0"))
DownloadAttempts(e) ==
  ParseInt(IF e.CHATTERBOX_DOWNLOAD_RETRIES = Unset THEN "0" ELSE e.CHATTERBOX_DOWNLOAD_RETRIES)

\* timeout_s is None
NoTimeout == -1

\* timeout_s = int(timeout_env) if timeout_env.isdigit() else None
PollTimeout(e) ==
  LET timeout_env == IF e.CHATTERBOX_POLL_TIMEOUT = Unset THEN "" ELSE e.CHATTERBOX_POLL_TIMEOUT
  IN IF IsDigit(timeout_env) THEN ParseInt(timeout_env) ELSE NoTimeout

\* the environments synthesize is run in: a retry bound that is unset, 0 or
\* positive, a poll timeout that is unset, not a number of seconds, or one
BackendEnvs ==
  {EnvOf("http://localhost:8014", Unset, FALSE)
     @@ [CHATTERBOX_DOWNLOAD_RETRIES |-> r, CHATTERBOX_POLL_TIMEOUT |-> t] :
     r \in {Unset} \cup {IntToStr(k) : k \in 0..MaxRetries},
     t \in {Unset, "1.5"} \cup {IntToStr(k) : k \in 0..MaxTimeout}}

\* no entry of the listing of /api/outputs, and the filename of no entry; the
\* outputs of the server are named 1, 2, ... in the order they appear
NoOutput == 0

\* the server: how many outputs it lists for the voice, and whether a
\* request for one more has reached it
ServersFor(j) ==
  IF j.fn = "synthesize"
  THEN {[outputs |-> n, pending |-> FALSE] : n \in 0..1}
  ELSE {[outputs |-> 0, pending |-> FALSE]}

\* the locals of synthesize and of _download_output before the call, with
\* what the call has done: the requests sent (polls, gets: saturating
\* counts), the downloads that failed, the listing at the snapshot and at
\* the submission, the last event, whether the submission or a poll failed
NoCall ==
  [before_name |-> NoOutput, candidate |-> NoOutput, elapsed |-> 0, i |-> 0,
   status |-> 0, polls |-> 0, gets |-> 0, fails |-> 0, at_snapshot |-> 0, at_post |-> 0,
   event |-> "", erred |-> FALSE]

EnvsFor(j) ==
  IF j.fn = "synthesize"
  THEN BackendEnvs
  ELSE IF j.fn = "pick_intro_outro"
  THEN {[INTRO_DIR |-> a, OUTRO_DIR |-> b, INTRO_OUTRO_DIR |-> c] :
          a \in {"", "env_intro"}, b \in {"", "env_outro"}, c \in {"", "env_both"}}
  ELSE IF j.fn = "_group_line_files_by_speaker"
  THEN {EnvOf(Unset, Unset, FALSE)}
  ELSE IF j.fn \in {"_combine_mp3s", "_is_valid_mp3", "combine_with_intro_outro"}
  THEN {EnvOf(Unset, Unset, p) : p \in BOOLEAN}
  ELSE IF j.single_track
  THEN {EnvOf(u, r, p) : u \in {Unset, "http://localhost:8014", "http://tts.local:9000"},
                         r \in {Unset, "1"}, p \in BOOLEAN}
  ELSE {EnvOf(u, Unset, p) : u \in {Unset, "http://localhost:8014"}, p \in BOOLEAN}

Jobs(scripts) ==
  MultiTrackJobs(scripts) \cup SingleTrackJobs \cup SingleTrackTextJobs
    \cup CreateDialogueAudioJobs(scripts) \cup CombineJobs

\* what a synthesis call (the backend's synthesize, gTTS save) does: it
\* raises, or it writes a file of some content at the path it was given
SynthOutcomes ==
  {[raised |-> TRUE, content |-> Good]} \cup {[raised |-> FALSE, content |-> c] : c \in Contents}

(***************************************************************************)
(* The state.                                                              *)
(***************************************************************************)
VARIABLES
  env,          \* the environment of the run
  job,          \* the job of the run
  budget,       \* the times the job is run
  fs,           \* the file system: path -> content
  pc,           \* where the running call is: idle, cda, tracks, st_synth, st_finish
  ncalls,       \* calls finished
  i,            \* create_dialogue_audio: index of the next line
  audio_files,  \* create_dialogue_audio: audio_files
  force,        \* create_dialogue_audio: force_gtts
  line_files,   \* render_combined_audio: line_files
  grouped,      \* render_combined_audio: the items of grouped
  gi,           \* render_combined_audio: groups combined so far
  final_paths,  \* render_combined_audio: final_paths
  tracks,       \* for each final path: its label and the number of its ordinal
  st,           \* render_combined_audio, single track: its names and flags
  written,      \* the paths the running call has written
  outcome,      \* how the last call ended
  prev,         \* how the call before it ended
  last,         \* what the last step did
  fs0,          \* the file system when the running call started
  trail,        \* create_dialogue_audio: for each line gone through, what the
                \* primary backend did and which synthesizer made the artifact kept
  net,          \* the TTS server: the outputs it lists, the request it works on
  be,           \* ChatterboxTTSBackend.synthesize: its locals and what it has done
  procs         \* renders run side by side: for each, what it listed and named

vars ==
  <<procs, env, job, budget, fs, pc, ncalls, i, audio_files, force, line_files, grouped, gi,
    final_paths, tracks, st, written, outcome, prev, last, fs0, trail, net, be>>

NoOutcome == [fn |-> "", status |-> "none", exc |-> "", value |-> <<>>, tracks |-> <<>>]

NoStep ==
  [step |-> "", primary |-> "", fallback |-> FALSE, mkdir |-> FALSE, proc |-> FALSE,
   runs |-> <<>>, listed |-> FALSE, spoken |-> <<>>]

NoSt == [out_label |-> "", n |-> 0, out_mp3 |-> <<"", "">>, out_wav |-> <<"", "">>,
         tmp_raw |-> <<"", "">>, wrote |-> FALSE, primary |-> ""]

\* a run of one of the jobs, times times, on one of the file systems
InitRunOn(jobs, times, disks) ==
  /\ job \in jobs
  /\ env \in EnvsFor(job)
  /\ budget = times
  /\ fs \in disks
  /\ pc = "idle"
  /\ ncalls = 0
  /\ i = 0
  /\ audio_files = <<>>
  /\ force = FALSE
  /\ line_files = <<>>
  /\ grouped = <<>>
  /\ gi = 0
  /\ final_paths = <<>>
  /\ tracks = <<>>
  /\ st = NoSt
  /\ written = {}
  /\ outcome = NoOutcome
  /\ prev = NoOutcome
  /\ last = NoStep
  /\ fs0 = fs
  /\ trail = <<>>
  /\ net \in ServersFor(job)
  /\ be = NoCall
  /\ procs = <<>>

InitRun(jobs, times) == InitRunOn(jobs, times, {EmptyFs})

\* the arguments render_combined_audio runs with
RenderLabel == job.label

RenderDefaultSpeaker ==
  IF job.fn \in {"render_single_track_text", "apply_intro_outro_to_files"}
  THEN (IF job.label # "" THEN job.label ELSE "dialogue")
  ELSE job.default_speaker

\* the title apply_intro_outro_to_files renders the bridge under
TitleStub == "bridge"

SafeTitleTable == [t \in Titles \cup {"", TitleStub} |-> SanitizeFilename(t)]

SafeTitle == SafeTitleTable[job.title]

\* the running render is the one apply_intro_outro_to_files calls for the
\* bridge: when it ends, apply_intro_outro_to_files goes on
Nested ==
  job.fn = "apply_intro_outro_to_files" /\ pc \in {"io_bridge", "st_synth", "st_finish"}

\* a call ends: it returns
Return(value, trks) ==
  /\ pc' = IF Nested THEN "io_combine" ELSE "idle"
  /\ ncalls' = IF Nested THEN ncalls ELSE ncalls + 1
  /\ outcome' = [fn |-> IF Nested THEN "render_single_track_text" ELSE job.fn,
                 status |-> "returned", exc |-> "", value |-> value, tracks |-> trks]

\* a call ends: an exception leaves it
Raise(exc) ==
  /\ pc' = IF Nested THEN "io_combine" ELSE "idle"
  /\ ncalls' = IF Nested THEN ncalls ELSE ncalls + 1
  /\ outcome' = [fn |-> IF Nested THEN "render_single_track_text" ELSE job.fn,
                 status |-> "raised", exc |-> exc, value |-> <<>>, tracks |-> <<>>]

\* a call starts: the locals of the call before it are gone
Enter ==
  /\ pc = "idle"
  /\ ncalls < budget
  /\ prev' = outcome
  /\ written' = {}
  /\ final_paths' = <<>>
  /\ tracks' = <<>>
  /\ line_files' = <<>>
  /\ grouped' = <<>>
  /\ gi' = 0
  /\ audio_files' = <<>>
  /\ i' = 0
  /\ fs0' = fs
  /\ trail' = <<>>

(***************************************************************************)
(* create_dialogue_audio.                                                  *)
(***************************************************************************)
\* the API call: makedirs(output_dir), the backend chosen once per batch
CallCreateDialogueAudio ==
  /\ Enter
  /\ job.fn = "create_dialogue_audio"
  /\ fs' = Mkdir(fs, TmpDir)
  /\ force' = job.force_gtts
  /\ pc' = "cda"
  /\ UNCHANGED <<net, be, procs, env, job, budget, ncalls, st, outcome, last>>

\* one pass of the loop body, for the line at index i
CdaLine ==
  /\ pc = "cda"
  /\ i < Len(job.dialogue)
  /\ LET line == job.dialogue[i + 1]
         speaker == SpeakerOf(line)
         filepath == LineFilePath(TmpDir, line, i)
         backend == ~force /\ BackendConfigured(env)
     IN IF PersonaParamsRaises(speaker)
        THEN /\ Raise("AttributeError")
             /\ last' = [NoStep EXCEPT !.step = "line",
                           !.primary = IF backend THEN "unreached" ELSE "absent"]
             /\ UNCHANGED <<fs, i, audio_files, written, trail>>
        ELSE \E b \in SynthOutcomes, g \in SynthOutcomes :
               LET tried == backend
                   wrote1 == tried /\ ~b.raised
                   fs1 == IF wrote1 THEN Put(fs, filepath, b.content) ELSE fs
                   fallback == (~wrote1) \/ (~IsValidMp3(fs1, filepath, env.pydub))
                   wrote2 == IF fallback THEN ~g.raised ELSE wrote1
                   fs2 == IF fallback /\ ~g.raised THEN Put(fs1, filepath, g.content) ELSE fs1
                   keep == wrote2 /\ IsValidMp3(fs2, filepath, env.pydub)
               IN /\ fs' = fs2
                  /\ written' = IF wrote1 \/ (fallback /\ ~g.raised)
                                 THEN written \cup {filepath} ELSE written
                  /\ audio_files' = IF keep THEN Append(audio_files, filepath) ELSE audio_files
                  /\ i' = i + 1
                  /\ last' = [NoStep EXCEPT !.step = "line",
                                !.primary = IF ~tried THEN "absent"
                                            ELSE IF b.raised THEN "raised"
                                            ELSE IF IsValidMp3(fs1, filepath, env.pydub)
                                                 THEN "valid" ELSE "invalid",
                                !.fallback = fallback,
                                !.spoken = <<CleanLine(line)>>]
                  /\ trail' = Append(trail,
                                 [primary |-> IF ~tried THEN "absent"
                                              ELSE IF b.raised THEN "raised"
                                              ELSE IF IsValidMp3(fs1, filepath, env.pydub)
                                                   THEN "valid" ELSE "invalid",
                                  source |-> IF ~keep THEN "none"
                                             ELSE IF fallback THEN "fallback" ELSE "primary"])
                  /\ UNCHANGED <<pc, ncalls, outcome>>
  /\ UNCHANGED <<net, be, procs, env, job, budget, force, line_files, grouped, gi, final_paths, tracks, st, prev,
                 fs0>>

\* the loop is over: create_dialogue_audio returns audio_files to the caller
\* of the API, or to render_combined_audio, which retries with gTTS forced,
\* raises, or goes on to group the files
CdaReturn ==
  /\ pc = "cda"
  /\ i = Len(job.dialogue)
  /\ IF job.fn = "create_dialogue_audio"
     THEN /\ Return(audio_files, <<>>)
          /\ UNCHANGED <<i, audio_files, force, line_files, grouped, trail>>
     ELSE IF audio_files = <<>> /\ ~force
     THEN /\ force' = TRUE
          /\ i' = 0
          /\ trail' = <<>>
          /\ UNCHANGED <<pc, ncalls, outcome, audio_files, line_files, grouped>>
     ELSE IF audio_files = <<>>
     THEN /\ Raise("RuntimeError")
          /\ UNCHANGED <<i, audio_files, force, line_files, grouped, trail>>
     ELSE /\ line_files' = audio_files
          /\ grouped' = GroupLineFilesBySpeaker(audio_files, RenderDefaultSpeaker)
          /\ pc' = "tracks"
          /\ UNCHANGED <<ncalls, outcome, i, audio_files, force, trail>>
  /\ UNCHANGED <<net, be, procs, env, job, budget, fs, gi, final_paths, tracks, st, written, prev, last, fs0>>

(***************************************************************************)
(* render_combined_audio and render_single_track_text.                     *)
(***************************************************************************)
\* cfg.response_format or "wav", lower-cased
TmpExt(e) ==
  LET fmt == CfgResponseFormat(e) IN Lower(IF fmt # "" THEN fmt ELSE "wav")

\* the label of the single track
OutLabel ==
  SanitizeFilename(IF RenderLabel # "" THEN RenderLabel
                   ELSE IF RenderDefaultSpeaker # "" THEN RenderDefaultSpeaker
                   ELSE "dialogue")

\* the call up to the synthesis of the single track, or up to the first
\* create_dialogue_audio of the multi-track path
RenderBody ==
  /\ IF job.single_track
     THEN IF PersonaParamsRaises(OutLabel)
          THEN /\ fs' = Mkdir(fs, AudioRoot)
               /\ Raise("AttributeError")
               /\ last' = [NoStep EXCEPT !.step = "single",
                             !.primary = IF BackendConfigured(env) THEN "unreached" ELSE "absent"]
               /\ UNCHANGED <<st, force>>
          ELSE LET fs1 == Mkdir(fs, AudioRoot)
                   n == NextOrdinalNumber(fs1, OutLabel, TodayToken)
                   base_name == BaseName(OutLabel, SafeTitle, TodayToken, n)
               IN /\ st' = [out_label |-> OutLabel, n |-> n,
                            out_mp3 |-> Join(AudioRoot, base_name \o ".mp3"),
                            out_wav |-> Join(AudioRoot, base_name \o ".wav"),
                            tmp_raw |-> Join(TmpDir, base_name \o "." \o TmpExt(env)),
                            wrote |-> FALSE, primary |-> ""]
                  /\ fs' = Mkdir(fs1, TmpDir)
                  /\ pc' = "st_synth"
                  /\ UNCHANGED <<ncalls, outcome, last, force>>
     ELSE /\ fs' = Mkdir(fs, TmpDir)
          /\ force' = FALSE
          /\ pc' = "cda"
          /\ UNCHANGED <<ncalls, outcome, last, st>>
  /\ UNCHANGED <<net, be, procs, env, job, budget>>

RenderStart ==
  /\ Enter
  /\ RenderBody

CallRenderCombinedAudio ==
  /\ job.fn = "render_combined_audio"
  /\ RenderStart

\* the wrapper: a one-line dialogue, single_track, default_speaker the label
CallRenderSingleTrackText ==
  /\ job.fn = "render_single_track_text"
  /\ RenderStart

\* single track: the backend's synthesis into tmp_raw and the conversion;
\* the artifact of the primary backend is the converted or renamed file
SingleSynth ==
  /\ pc = "st_synth"
  /\ \E b \in SynthOutcomes, tool_ok \in BOOLEAN :
       LET wrote == BackendConfigured(env) /\ ~b.raised
           fs1 == IF wrote THEN Put(fs, st.tmp_raw, b.content) ELSE fs
           fs2 == IF ~wrote THEN fs1
                  ELSE IF TmpExt(env) # "mp3"
                       THEN IF env.pydub
                            THEN IF b.content.dec /\ tool_ok
                                 THEN Put(fs1, st.out_mp3,
                                          [dir |-> FALSE, size |-> b.content.size, dec |-> TRUE])
                                 ELSE fs1
                            ELSE Move(fs1, st.tmp_raw, st.out_wav)
                       ELSE Move(fs1, st.tmp_raw, st.out_mp3)
       IN /\ fs' = fs2
          /\ written' = written \cup
                          (IF ~wrote THEN {}
                           ELSE IF TmpExt(env) # "mp3"
                                THEN IF env.pydub
                                     THEN IF b.content.dec /\ tool_ok
                                          THEN {st.tmp_raw, st.out_mp3} ELSE {st.tmp_raw}
                                     ELSE {st.out_wav}
                                ELSE {st.out_mp3})
          /\ st' = [st EXCEPT !.wrote = wrote,
                              !.primary = IF ~BackendConfigured(env) THEN "absent"
                                          ELSE IF b.raised THEN "raised"
                                          ELSE IF \/ IsValidMp3(fs2, st.out_mp3, env.pydub)
                                                  \/ /\ ~Exists(fs2, st.out_mp3)
                                                     /\ IsValidMp3(fs2, st.out_wav, env.pydub)
                                               THEN "valid" ELSE "invalid"]
  /\ pc' = "st_finish"
  /\ UNCHANGED <<net, be, procs, env, job, budget, ncalls, i, audio_files, force, line_files, grouped, gi,
                 final_paths, tracks, outcome, prev, last, fs0, trail>>

\* TTS_REQUIRE_SERVER is one of 1, true, yes
RequireServer(e) ==
  Lower(Strip(GetenvOrNone(e, "TTS_REQUIRE_SERVER"))) \in {"1", "true", "yes"}

\* single track: the final path is decided, gTTS is the fallback, the
\* temporary directory is removed
SingleFinish ==
  /\ pc = "st_finish"
  /\ LET track(path) == <<[path |-> path, key |-> st.out_label, n |-> st.n]>>
         step(fb) == [NoStep EXCEPT !.step = "single", !.primary = st.primary, !.fallback = fb]
     IN IF Exists(fs, st.out_mp3) /\ IsValidMp3(fs, st.out_mp3, env.pydub)
        THEN /\ fs' = RemoveTree(fs, TmpDir)
             /\ final_paths' = <<st.out_mp3>>
             /\ tracks' = track(st.out_mp3)
             /\ Return(<<st.out_mp3>>, track(st.out_mp3))
             /\ last' = step(FALSE)
             /\ UNCHANGED written
        ELSE IF Exists(fs, st.out_wav)
        THEN /\ fs' = RemoveTree(fs, TmpDir)
             /\ final_paths' = <<st.out_wav>>
             /\ tracks' = track(st.out_wav)
             /\ Return(<<st.out_wav>>, track(st.out_wav))
             /\ last' = step(FALSE)
             /\ UNCHANGED written
        ELSE IF RequireServer(env)
        THEN /\ Raise("RuntimeError")
             /\ last' = step(FALSE)
             /\ UNCHANGED <<fs, final_paths, tracks, written>>
        ELSE \E g \in SynthOutcomes :
               IF g.raised
               THEN /\ Raise("RuntimeError")
                    /\ last' = step(TRUE)
                    /\ UNCHANGED <<fs, final_paths, tracks, written>>
               ELSE /\ fs' = RemoveTree(Put(fs, st.out_mp3, g.content), TmpDir)
                    /\ written' = written \cup {st.out_mp3}
                    /\ final_paths' = <<st.out_mp3>>
                    /\ tracks' = track(st.out_mp3)
                    /\ Return(<<st.out_mp3>>, track(st.out_mp3))
                    /\ last' = step(TRUE)
  /\ UNCHANGED <<net, be, procs, env, job, budget, i, audio_files, force, line_files, grouped, gi, st, prev,
                 fs0, trail>>

\* multi track: the next group is combined into its final file
RenderGroup ==
  /\ pc = "tracks"
  /\ gi < Len(grouped)
  /\ LET character == grouped[gi + 1][1]
         files == grouped[gi + 1][2]
         n == NextOrdinalNumber(fs, character, TodayToken)
         out_path == Join(AudioRoot, BaseName(character, SafeTitle, TodayToken, n) \o ".mp3")
     IN \E tool_ok \in BOOLEAN :
          LET r == CombineMp3s(fs, files, out_path, env.pydub, tool_ok)
          IN /\ fs' = r.fs
             /\ last' = [NoStep EXCEPT !.step = "combine", !.mkdir = r.mkdir, !.proc = r.proc]
             /\ IF r.raised
                THEN /\ Raise(r.exc)
                     /\ UNCHANGED <<gi, final_paths, tracks, written>>
                ELSE /\ gi' = gi + 1
                     /\ final_paths' = Append(final_paths, out_path)
                     /\ tracks' = Append(tracks, [path |-> out_path, key |-> character, n |-> n])
                     /\ written' = written \cup {out_path}
                     /\ UNCHANGED <<pc, ncalls, outcome>>
  /\ UNCHANGED <<net, be, procs, env, job, budget, i, audio_files, force, line_files, grouped, st, prev,
                 fs0, trail>>

\* multi track: the per-line files and the temporary directory are removed
\* (cleanup_parts), final_paths is returned
RenderCleanup ==
  /\ pc = "tracks"
  /\ gi = Len(grouped)
  /\ fs' = IF job.cleanup_parts
           THEN RemoveTree(Remove(fs, {line_files[k] : k \in 1..Len(line_files)}), TmpDir)
           ELSE fs
  /\ Return(final_paths, tracks)
  /\ UNCHANGED <<net, be, procs, env, job, budget, i, audio_files, force, line_files, grouped, gi, final_paths,
                 tracks, st, written, prev, last, fs0, trail>>

(***************************************************************************)
(* intro_outro.py: the intro and outro assets, combine_with_intro_outro    *)
(* and apply_intro_outro_to_files.  None of a path is NoPath.              *)
(***************************************************************************)
NoPath == <<"", "">>

\* Path(name).suffix and Path(name).stem: the name is split at its last dot,
\* a dot at the start of the name is not one
RECURSIVE LastDot(_, _)
LastDot(name, k) ==
  IF k <= 1 THEN 0 ELSE IF CharAt(name, k) = "." THEN k ELSE LastDot(name, k - 1)

Suffix(name) ==
  LET d == LastDot(name, Len(name)) IN IF d = 0 THEN "" ELSE SubSeq(name, d, Len(name))

Stem(name) ==
  LET d == LastDot(name, Len(name)) IN IF d = 0 THEN name ELSE SubSeq(name, 1, d - 1)

AudioExts == {".mp3", ".wav", ".ogg", ".m4a", ".flac"}

\* (faulty variant: every file of the directory counts as audio)
ListAudioFilesAnySuffix(f, dir_path) ==
  IF ~(Exists(f, DirPath(dir_path)) /\ f[DirPath(dir_path)].dir) THEN <<>>
  ELSE LET files == {q \in DOMAIN f : q[1] = dir_path /\ ~f[q].dir}
           RECURSIVE AsSeq(_)
           AsSeq(S) == IF S = {} THEN <<>> ELSE LET x == CHOOSE x \in S : TRUE
                                                IN <<x>> \o AsSeq(S \ {x})
       IN Sorted(AsSeq(files))

\* _list_audio_files(dir_path)
ListAudioFiles(f, dir_path) ==
  IF ~(Exists(f, DirPath(dir_path)) /\ f[DirPath(dir_path)].dir) THEN <<>>
  ELSE LET files == {q \in DOMAIN f :
                       q[1] = dir_path /\ ~f[q].dir /\ Lower(Suffix(q[2])) \in AudioExts}
           RECURSIVE AsSeq(_)
           AsSeq(S) == IF S = {} THEN <<>> ELSE LET x == CHOOSE x \in S : TRUE
                                                IN <<x>> \o AsSeq(S \ {x})
       IN Sorted(AsSeq(files))

\* the folder pick_intro_outro tries when it found nothing
GuessedDir == "intro_outros"

\* a or b or c or d or e of Python, over strings: the first that is not empty
FirstSet(choices) ==
  LET set == SelectSeq(choices, LAMBDA c : c # "") IN IF set = <<>> THEN "" ELSE set[1]

\* INTRO_DIR, OUTRO_DIR and INTRO_OUTRO_DIR of the environment, the empty
\* string standing for a variable that is unset
IntroEnvOf(intro, outro, both) ==
  [INTRO_DIR |-> intro, OUTRO_DIR |-> outro, INTRO_OUTRO_DIR |-> both]

\* pick_intro_outro(intro_dir, outro_dir, intro_outro_dir) in the environment
\* e, the empty string standing for None.  The result is <<intro, outro>>.
PickIntroOutroIn(f, intro_dir, outro_dir, intro_outro_dir, e) ==
  LET idir0 == FirstSet(<<intro_dir, intro_outro_dir, e.INTRO_DIR, e.INTRO_OUTRO_DIR, "intro">>)
      odir0 == FirstSet(<<outro_dir, intro_outro_dir, e.OUTRO_DIR, e.INTRO_OUTRO_DIR, "outro">>)
      guess == /\ ListAudioFiles(f, idir0) = <<>>
               /\ ListAudioFiles(f, odir0) = <<>>
               /\ Exists(f, DirPath(GuessedDir))
      iodir == IF guess THEN GuessedDir ELSE intro_outro_dir
      idir == IF guess THEN GuessedDir ELSE idir0
      odir == IF guess THEN GuessedDir ELSE odir0
      intro_files == ListAudioFiles(f, idir)
      outro_files == ListAudioFiles(f, odir)
      first(files) == IF files = <<>> THEN NoPath ELSE files[1]
      intro_hint == SelectSeq(intro_files, LAMBDA q : Contains(Lower(q[2]), "intro"))
      outro_hint == SelectSeq(outro_files, LAMBDA q : Contains(Lower(q[2]), "outro"))
  IN IF iodir # "" /\ iodir = idir /\ idir = odir
     THEN <<IF intro_hint # <<>> THEN intro_hint[1] ELSE first(intro_files),
            IF outro_hint # <<>> THEN outro_hint[1] ELSE first(outro_files)>>
     ELSE <<first(intro_files), first(outro_files)>>

\* pick_intro_outro with INTRO_DIR, OUTRO_DIR and INTRO_OUTRO_DIR unset, as in
\* the runs of apply_intro_outro_to_files of the model
PickIntroOutro(f, intro_dir, outro_dir, intro_outro_dir) ==
  PickIntroOutroIn(f, intro_dir, outro_dir, intro_outro_dir, IntroEnvOf("", "", ""))

\* the segments the library concatenates, the lines of the concat list, and
\* the inputs of the re-encoding run: each is built by the same appends
LibrarySegments(intro_file, bridge_file, main_file, outro_file) ==
  (IF intro_file # NoPath THEN <<intro_file>> ELSE <<>>)
    \o (IF bridge_file # NoPath THEN <<bridge_file>> ELSE <<>>)
    \o <<main_file>>
    \o (IF outro_file # NoPath THEN <<outro_file>> ELSE <<>>)

ConcatListParts(intro_file, bridge_file, main_file, outro_file) ==
  (IF intro_file # NoPath THEN <<intro_file>> ELSE <<>>)
    \o (IF bridge_file # NoPath THEN <<bridge_file>> ELSE <<>>)
    \o <<main_file>>
    \o (IF outro_file # NoPath THEN <<outro_file>> ELSE <<>>)

\* (faulty variant: the main file comes first)
ReencodeInputsMainFirst(intro_file, bridge_file, main_file, outro_file) ==
  <<main_file>>
    \o (IF intro_file # NoPath THEN <<intro_file>> ELSE <<>>)
    \o (IF bridge_file # NoPath THEN <<bridge_file>> ELSE <<>>)
    \o (IF outro_file # NoPath THEN <<outro_file>> ELSE <<>>)

ReencodeInputs(intro_file, bridge_file, main_file, outro_file) ==
  (IF intro_file # NoPath THEN <<intro_file>> ELSE <<>>)
    \o (IF bridge_file # NoPath THEN <<bridge_file>> ELSE <<>>)
    \o <<main_file>>
    \o (IF outro_file # NoPath THEN <<outro_file>> ELSE <<>>)

\* the files that must be .mp3 when the library is missing
Mp3RequiredOf(intro_file, bridge_file, main_file, outro_file) ==
  SelectSeq(<<intro_file, main_file, outro_file>>, LAMBDA q : q # NoPath)

\* combine_with_intro_outro(main_file, intro_file, outro_file, bridge_file=...):
\* with pydub every part is decoded and the sum exported (first_ok: the
\* export works); without it the intro, the main file and the outro must be
\* .mp3, the concat list is written and ffmpeg copies the streams (first_ok),
\* and when that fails ffmpeg re-encodes the inputs (second_ok).  The result
\* names the runs of a tool made, each with its inputs in order.
CombineWithIntroOutroBy(f, main_file, intro_file, outro_file, bridge_file, pydub, first_ok, second_ok) ==
  LET out_path == Join(Dirname(main_file), Stem(Basename(main_file)) \o "_with_intro_outro.mp3")
      f1 == Mkdir(f, Dirname(main_file))
      segs == LibrarySegments(intro_file, bridge_file, main_file, outro_file)
      parts == ConcatListParts(intro_file, bridge_file, main_file, outro_file)
      inputs == ReencodeInputs(intro_file, bridge_file, main_file, outro_file)
      named == Mp3RequiredOf(intro_file, bridge_file, main_file, outro_file)
      readable(ps) == \A k \in 1..Len(ps) : Exists(f, ps[k]) /\ ~f[ps[k]].dir
      decodable(ps) == readable(ps) /\ \A k \in 1..Len(ps) : f[ps[k]].dec
      run(strategy, ps, ok) == [strategy |-> strategy, inputs |-> ps, ok |-> ok]
      done(ps, runs, listed) ==
        [raised |-> FALSE, exc |-> "", out |-> out_path,
         fs |-> Put(f1, out_path, CombinedContent(f, ps)), runs |-> runs, listed |-> listed]
      failed(exc, runs, listed) ==
        [raised |-> TRUE, exc |-> exc, out |-> NoPath, fs |-> f1, runs |-> runs,
         listed |-> listed]
  IN IF pydub
     THEN IF decodable(segs) /\ first_ok
          THEN done(segs, <<run("library", segs, TRUE)>>, FALSE)
          ELSE failed("CombineError", <<run("library", segs, FALSE)>>, FALSE)
     ELSE IF \E k \in 1..Len(named) : Lower(Suffix(Basename(named[k]))) # ".mp3"
          THEN failed("RuntimeError", <<>>, FALSE)
          ELSE IF readable(parts) /\ first_ok
          THEN done(parts, <<run("copy", parts, TRUE)>>, TRUE)
          ELSE IF readable(inputs) /\ second_ok
          THEN done(inputs, <<run("copy", parts, FALSE), run("reencode", inputs, TRUE)>>, TRUE)
          ELSE failed("CalledProcessError",
                      <<run("copy", parts, FALSE), run("reencode", inputs, FALSE)>>, TRUE)

\* combine_with_intro_outro, the tool working all through (tool_ok) or not at
\* all
CombineWithIntroOutro(f, main_file, intro_file, outro_file, bridge_file, pydub, tool_ok) ==
  CombineWithIntroOutroBy(f, main_file, intro_file, outro_file, bridge_file, pydub,
                          tool_ok, tool_ok)

(***************************************************************************)
(* _combine_mp3s called on its own.                                        *)
(***************************************************************************)
CombinedPath == Join(AudioRoot, "combined.mp3")

CallCombineMp3s ==
  /\ Enter
  /\ job.fn = "_combine_mp3s"
  /\ \E tool_ok \in BOOLEAN :
       LET r == CombineMp3s(fs, job.file_list, CombinedPath, env.pydub, tool_ok)
       IN /\ fs' = r.fs
          /\ last' = [NoStep EXCEPT !.step = "combine", !.mkdir = r.mkdir, !.proc = r.proc,
                        !.runs = CombineMp3sRuns(fs, job.file_list, env.pydub, tool_ok),
                        !.listed = r.proc /\ ~env.pydub]
          /\ IF r.raised THEN Raise(r.exc) ELSE Return(<<CombinedPath>>, <<>>)
  /\ UNCHANGED <<net, be, procs, env, job, budget, force, st>>

(***************************************************************************)
(* apply_intro_outro_to_files, called on its own or after a render as      *)
(* run_story_gen.py calls it.                                              *)
(***************************************************************************)
\* the arguments of a call; label holds label_used, the label the bridge is
\* rendered with, and title the title of the bridge
IntroJobOf(files, intro_dir, outro_dir, intro_outro_dir, bridge_text, lbl) ==
  [fn |-> "apply_intro_outro_to_files", dialogue |-> <<Strip(bridge_text)>>,
   title |-> TitleStub, label |-> IF lbl # "" THEN lbl ELSE "djcara",
   default_speaker |-> "", cleanup_parts |-> TRUE, single_track |-> TRUE,
   force_gtts |-> FALSE, file_list |-> files, intro_dir |-> intro_dir,
   outro_dir |-> outro_dir, intro_outro_dir |-> intro_outro_dir,
   bridge_text |-> bridge_text]

\* a main file given to apply_intro_outro_to_files
StoryFile == <<AudioRoot, "story.mp3">>

BridgeTexts == {"", " Up next. "}

DirArgs == {<<"intro", "outro", "">>, <<"", "", "stingers">>}

IntroJobs(file_lists) ==
  {IntroJobOf(fl, d[1], d[2], d[3], b, l) :
     fl \in file_lists, d \in DirArgs, b \in BridgeTexts, l \in {"", "Narrator"}}

\* the renders run before it
BeforeIntroJobs ==
  {JobOf("render_single_track_text", <<Monologue>>, t, "Narrator", "", TRUE, TRUE, FALSE, <<>>) :
     t \in Titles \cup {TitleStub}}

\* the output directory with the main file in it, and the asset folders:
\* missing, empty, holding audio files or holding other files
OutFs == (DirPath(AudioRoot) :> DirEntry) @@ (StoryFile :> Good)

NoAudioFs == (DirPath("intro") :> DirEntry) @@ (<<"intro", "notes.txt">> :> Good)

GuessedFs ==
  (DirPath("intro") :> DirEntry) @@ (DirPath(GuessedDir) :> DirEntry)
    @@ (<<GuessedDir, "a_outro.mp3">> :> Good) @@ (<<GuessedDir, "b_intro.mp3">> :> Good)

IntroFs == (DirPath("intro") :> DirEntry) @@ (<<"intro", "theme.MP3">> :> Good)

OutroFs == (DirPath("outro") :> DirEntry) @@ (<<"outro", "bye.wav">> :> Good)

StingerFs == (DirPath("stingers") :> DirEntry) @@ (<<"stingers", "sting.mp3">> :> Good)

AssetFs ==
  {OutFs @@ a : a \in {EmptyFs, NoAudioFs, GuessedFs, IntroFs, IntroFs @@ OutroFs, StingerFs}}

\* the caller goes from the render to apply_intro_outro_to_files, on the main
\* file or on what the render returned
SwitchToIntro ==
  /\ pc = "idle"
  /\ job.fn = "render_single_track_text"
  /\ ncalls >= 1
  /\ ncalls < budget
  /\ job' \in IntroJobs({<<StoryFile>>} \cup
                        (IF outcome.status = "returned" THEN {outcome.value} ELSE {}))
  /\ UNCHANGED <<procs, net, be, env, budget, fs, pc, ncalls, i, audio_files, force, line_files, grouped, gi,
                 final_paths, tracks, st, written, outcome, prev, last, fs0, trail>>

\* where the loop body starts: with the bridge, if a text was given
LoopEntry == IF job.bridge_text # "" THEN "io_bridge" ELSE "io_plain"

\* the call: the intro and the outro are picked, and with neither of them
\* the files are returned as they came
CallApplyIntroOutro ==
  /\ Enter
  /\ job.fn = "apply_intro_outro_to_files"
  /\ LET picked == PickIntroOutro(fs, job.intro_dir, job.outro_dir, job.intro_outro_dir)
     IN IF picked = <<NoPath, NoPath>> \/ job.file_list = <<>>
        THEN Return(job.file_list, <<>>)
        ELSE /\ pc' = LoopEntry
             /\ UNCHANGED <<ncalls, outcome>>
  /\ UNCHANGED <<net, be, procs, env, job, budget, fs, force, st, last>>

\* the loop body, first part: render_single_track_text of the bridge text
\* into the folder of the file
IoBridge ==
  /\ pc = "io_bridge"
  /\ RenderBody
  /\ UNCHANGED <<i, audio_files, line_files, grouped, gi, final_paths, tracks, written, prev,
                 fs0, trail>>

\* the loop body, second part: the file is combined, the bridge removed
IoCombine ==
  /\ pc \in {"io_combine", "io_plain"}
  /\ LET fp == job.file_list[i + 1]
         picked == PickIntroOutro(fs0, job.intro_dir, job.outro_dir, job.intro_outro_dir)
         bridge_file == IF pc = "io_combine" /\ outcome.status = "returned" /\ outcome.value # <<>>
                        THEN outcome.value[1] ELSE NoPath
     IN \E tool_ok \in BOOLEAN :
          LET r == CombineWithIntroOutro(fs, fp, picked[1], picked[2], bridge_file,
                                         env.pydub, tool_ok)
          IN IF r.raised
             THEN /\ fs' = r.fs
                  /\ Raise(r.exc)
                  /\ UNCHANGED <<i, audio_files, written>>
             ELSE /\ fs' = IF bridge_file # NoPath /\ Exists(r.fs, bridge_file)
                           THEN Remove(r.fs, {bridge_file}) ELSE r.fs
                  /\ written' = written \cup {r.out}
                  /\ audio_files' = Append(audio_files, r.out)
                  /\ i' = i + 1
                  /\ IF i + 1 = Len(job.file_list)
                     THEN Return(Append(audio_files, r.out), <<>>)
                     ELSE /\ pc' = LoopEntry
                          /\ UNCHANGED <<ncalls, outcome>>
  /\ UNCHANGED <<net, be, procs, env, job, budget, force, line_files, grouped, gi, final_paths, tracks, st,
                 prev, last, fs0, trail>>

NextIntro ==
  \/ CallRenderSingleTrackText
  \/ SingleSynth
  \/ SingleFinish
  \/ SwitchToIntro
  \/ CallApplyIntroOutro
  \/ IoBridge
  \/ IoCombine

\* a render and then apply_intro_outro_to_files, or the latter twice; the
\* environments are those of the multi-track jobs
InitIntro ==
  /\ InitRunOn(BeforeIntroJobs \cup IntroJobs({<<StoryFile>>, <<>>}), 2, AssetFs)
  /\ env \in EnvsFor([fn |-> "render_combined_audio", single_track |-> FALSE])

SpecIntro == InitIntro /\ [][NextIntro]_vars

(***************************************************************************)
(* _is_valid_mp3 called on its own, on a path with no file or with a file  *)
(* of some size that decodes or does not.                                  *)
(***************************************************************************)
ProbePaths == {<<AudioRoot, "take.mp3">>, <<AudioRoot, "take.wav">>}

ProbeContents ==
  {[dir |-> FALSE, size |-> sz, dec |-> d] : sz \in {0, 1023, 1024, 2048}, d \in BOOLEAN}

ProbeFs ==
  {(DirPath(AudioRoot) :> DirEntry)} \cup
  {(DirPath(AudioRoot) :> DirEntry) @@ (q :> c) : q \in ProbePaths, c \in ProbeContents}

ProbeJobs ==
  {JobOf("_is_valid_mp3", <<>>, "", "", "", TRUE, FALSE, FALSE, <<q>>) : q \in ProbePaths}

CallIsValidMp3 ==
  /\ Enter
  /\ job.fn = "_is_valid_mp3"
  /\ Return(<<IsValidMp3(fs, job.file_list[1], env.pydub)>>, <<>>)
  /\ UNCHANGED <<net, be, procs, env, job, budget, fs, force, st, last>>

NextProbe == CallIsValidMp3

InitProbe == InitRunOn(ProbeJobs, MaxCalls, ProbeFs)

SpecProbe == InitProbe /\ [][NextProbe]_vars

(***************************************************************************)
(* ChatterboxTTSBackend.synthesize called on its own, request by request.  *)
(***************************************************************************)
OutPath == <<AudioRoot, "line.mp3">>

SynthesizeJobs ==
  {JobOf("synthesize", <<Monologue>>, "", "", "", TRUE, FALSE, FALSE, <<OutPath>>)}

\* the output directory is missing, or there, or there with a file at out_path
BackendFs ==
  {EmptyFs, DirPath(AudioRoot) :> DirEntry, (DirPath(AudioRoot) :> DirEntry) @@ (OutPath :> Good)}

\* what a write that fails half-way leaves in the file
Partial == [dir |-> FALSE, size |-> 512, dec |-> FALSE]

\* _latest_output: the first item of the listing, None when the listing is
\* empty or the request failed (ok: no RequestException)
LatestOutput(ok, outputs) == IF ok /\ outputs > 0 THEN outputs ELSE NoOutput

\* latest and latest.get("filename") != before_name
IsNew(latest, before_name) == latest # NoOutput /\ latest # before_name

\* (faulty variant: only a server error is a rejection)
RejectedFrom500(status) == status >= 500

\* resp.status_code >= 400
Rejected(status) == status >= 400

\* (faulty variant: one attempt more than the bound)
MayTryOnceMore(attempts, tried) == attempts <= 0 \/ tried <= attempts

\* while attempts <= 0 or i < attempts
MayTry(attempts, tried) == attempts <= 0 \/ tried < attempts

\* the call: the snapshot of the latest output is taken
CallSynthesize ==
  /\ Enter
  /\ job.fn = "synthesize"
  /\ \E ok \in BOOLEAN :
       be' = [NoCall EXCEPT !.before_name = LatestOutput(ok, net.outputs),
                            !.at_snapshot = net.outputs,
                            !.event = IF ok THEN "snapshot" ELSE "snapshot_error"]
  /\ pc' = "be_post"
  /\ UNCHANGED <<net, procs, env, job, budget, fs, force, st, last, ncalls, outcome>>

\* POST /tts: a RequestException (the request may have reached the server
\* all the same), or a response with a status
Post ==
  /\ pc = "be_post"
  /\ \/ \E reached \in BOOLEAN :
          /\ net' = [net EXCEPT !.pending = reached]
          /\ be' = [be EXCEPT !.at_post = net.outputs, !.event = "post_error", !.erred = TRUE]
          /\ pc' = "be_poll"
          /\ UNCHANGED <<ncalls, outcome>>
     \/ \E status \in {200, 404, 500} :
          /\ be' = [be EXCEPT !.at_post = net.outputs, !.status = status, !.event = "post"]
          /\ IF Rejected(status)
             THEN /\ Raise("RuntimeError")
                  /\ UNCHANGED net
             ELSE /\ net' = [net EXCEPT !.pending = TRUE]
                  /\ pc' = "be_poll"
                  /\ UNCHANGED <<ncalls, outcome>>
  /\ UNCHANGED <<procs, env, job, budget, fs, i, audio_files, force, line_files, grouped, gi,
                 final_paths, tracks, st, written, prev, last, fs0, trail>>

\* the server finishes the output it was asked for and lists it
Produce ==
  /\ net.pending
  /\ net' = [outputs |-> net.outputs + 1, pending |-> FALSE]
  /\ UNCHANGED <<be, procs, env, job, budget, fs, pc, ncalls, i, audio_files, force, line_files,
                 grouped, gi, final_paths, tracks, st, written, outcome, prev, last, fs0, trail>>

\* (faulty variant: the loop goes on until the timeout is exceeded)
TimedOutLate(timeout_s, elapsed) == timeout_s # NoTimeout /\ elapsed > timeout_s

\* timeout_s is not None and elapsed >= timeout_s
TimedOut(timeout_s, elapsed) == timeout_s # NoTimeout /\ elapsed >= timeout_s

\* one pass of the polling loop after the sleep, latest being what
\* _latest_output gave: a new output ends the loop, and so does the timeout
PollPass(latest, event) ==
  /\ pc = "be_poll"
  /\ IF IsNew(latest, be.before_name)
     THEN /\ be' = [be EXCEPT !.candidate = latest, !.event = event,
                              !.erred = be.erred \/ event = "poll_error",
                              !.polls = Min(be.polls + 1, MaxTimeout + 1)]
          /\ pc' = "be_download"
     ELSE \E took \in 1..2 :
            LET elapsed == IF PollTimeout(env) = NoTimeout THEN 0 ELSE be.elapsed + took
            IN /\ be' = [be EXCEPT !.elapsed = elapsed, !.event = event,
                                   !.erred = be.erred \/ event = "poll_error",
                                   !.polls = Min(be.polls + 1, MaxTimeout + 1)]
               /\ pc' = IF TimedOut(PollTimeout(env), elapsed)
                        THEN "be_download" ELSE "be_poll"
  /\ UNCHANGED <<net, procs, env, job, budget, fs, ncalls, i, audio_files, force, line_files,
                 grouped, gi, final_paths, tracks, st, written, outcome, prev, last, fs0, trail>>

\* a pass in which the listing was fetched
PollOk ==
  /\ job.fn = "synthesize"
  /\ PollPass(LatestOutput(TRUE, net.outputs), "poll")

\* a pass in which the request for the listing failed
PollError ==
  /\ job.fn = "synthesize"
  /\ PollPass(LatestOutput(FALSE, net.outputs), "poll_error")

\* _download_output(None, out_path): item.get raises
DownloadNothing ==
  /\ pc = "be_download"
  /\ be.candidate = NoOutput
  /\ Raise("AttributeError")
  /\ UNCHANGED <<net, be, procs, env, job, budget, fs, i, audio_files, force, line_files,
                 grouped, gi, final_paths, tracks, st, written, prev, last, fs0, trail>>

\* one pass of the loop of _download_output, the request failing: after the
\* sleep the loop goes on, or it is over and RuntimeError is raised
DownloadError ==
  /\ pc = "be_download"
  /\ be.candidate # NoOutput
  /\ MayTry(DownloadAttempts(env), be.i)
  /\ be' = [be EXCEPT !.i = Min(be.i + 1, MaxRetries + 1),
                      !.gets = Min(be.gets + 1, MaxRetries + 2),
                      !.fails = Min(be.fails + 1, MaxRetries + 2),
                      !.event = "get_error"]
  /\ IF MayTry(DownloadAttempts(env), Min(be.i + 1, MaxRetries + 1))
     THEN UNCHANGED <<pc, ncalls, outcome>>
     ELSE Raise("RuntimeError")
  /\ UNCHANGED <<net, procs, env, job, budget, fs, i, audio_files, force, line_files,
                 grouped, gi, final_paths, tracks, st, written, prev, last, fs0, trail>>

\* one pass of the loop of _download_output, the request answered: out_path
\* is opened for writing (which needs its folder) and the content written
\* (stored: the write went through)
DownloadOk ==
  /\ pc = "be_download"
  /\ be.candidate # NoOutput
  /\ MayTry(DownloadAttempts(env), be.i)
  /\ be' = [be EXCEPT !.i = Min(be.i + 1, MaxRetries + 1),
                      !.gets = Min(be.gets + 1, MaxRetries + 2),
                      !.event = "get"]
  /\ IF ~(Exists(fs, DirPath(Dirname(OutPath))) /\ fs[DirPath(Dirname(OutPath))].dir)
     THEN /\ Raise("FileNotFoundError")
          /\ UNCHANGED <<fs, written>>
     ELSE \E stored \in BOOLEAN, c \in Contents :
            IF stored
            THEN /\ fs' = Put(fs, job.file_list[1], c)
                 /\ written' = written \cup {job.file_list[1]}
                 /\ Return(<<job.file_list[1]>>, <<>>)
            ELSE /\ fs' = Put(fs, job.file_list[1], Partial)
                 /\ written' = written \cup {job.file_list[1]}
                 /\ Raise("OSError")
  /\ UNCHANGED <<net, procs, env, job, budget, i, audio_files, force, line_files,
                 grouped, gi, final_paths, tracks, st, prev, last, fs0, trail>>

NextBackend ==
  \/ CallSynthesize
  \/ Post
  \/ Produce
  \/ PollOk
  \/ PollError
  \/ DownloadNothing
  \/ DownloadError
  \/ DownloadOk

InitBackend == InitRunOn(SynthesizeJobs, 1, BackendFs)

SpecBackend == InitBackend /\ [][NextBackend]_vars

\* the loops of synthesize go on, and a request that can succeed is not
\* failing for ever
FairBackend ==
  SpecBackend /\ WF_vars(PollOk) /\ WF_vars(DownloadOk \/ DownloadError \/ DownloadNothing)

(***************************************************************************)
(* Renders of one job run side by side on one output directory: each lists *)
(* the directory and names its final artifact, synthesizes, and then       *)
(* writes the artifact.  The runs are those in which the synthesis works.  *)
(***************************************************************************)
\* the largest number of renders run side by side
MaxRuns == 2

Runs == 1..MaxRuns

RaceJobs ==
  {JobOf("render_single_track_text", <<Monologue>>, t, "Narrator", "", TRUE, TRUE, FALSE, <<>>) :
     t \in Titles \cup {TitleStub}}

\* the output directory: finals of the label made earlier that day, a final
\* of another label, a final of the day before
RaceFs ==
  LET earlier == {<<AudioRoot, "narrator_news_04 nov_1st.mp3">>,
                  <<AudioRoot, "narrator_news_04 nov_2nd.mp3">>}
      others == {<<AudioRoot, "host_news_04 nov_1st.mp3">>,
                 <<AudioRoot, "narrator_news_03 nov_1st.mp3">>}
  IN {[q \in {DirPath(AudioRoot)} \cup a \cup b |-> IF q = DirPath(AudioRoot) THEN DirEntry ELSE Good] :
        a \in {{}, {<<AudioRoot, "narrator_news_04 nov_1st.mp3">>}, earlier}, b \in SUBSET others}

\* the final artifact of run p
TakeOf(p) == [dir |-> FALSE, size |-> 2048 + 1024 * p, dec |-> TRUE]

\* run p lists the directory, counts the finals of its label and date, and
\* names its own
RaceList(p) ==
  /\ p \notin DOMAIN procs
  /\ LET n == NextOrdinalNumber(fs, OutLabel, TodayToken)
     IN procs' = procs @@ (p :> [pc |-> "listed", seen |-> ListDir(fs, AudioRoot), n |-> n,
                                 path |-> Join(AudioRoot, BaseName(OutLabel, SafeTitle, TodayToken, n) \o ".mp3"),
                                 stamp |-> 0])
  /\ UNCHANGED <<net, be, env, job, budget, fs, pc, ncalls, i, audio_files, force, line_files,
                 grouped, gi, final_paths, tracks, st, written, outcome, prev, last, fs0, trail>>

\* run p writes its final artifact under the name it chose
RaceWrite(p) ==
  /\ p \in DOMAIN procs
  /\ procs[p].pc = "listed"
  /\ fs' = Put(fs, procs[p].path, TakeOf(p))
  /\ procs' = [procs EXCEPT ![p].pc = "done",
                            ![p].stamp = 1 + Cardinality({q \in DOMAIN procs : procs[q].pc = "done"})]
  /\ UNCHANGED <<net, be, env, job, budget, pc, ncalls, i, audio_files, force, line_files,
                 grouped, gi, final_paths, tracks, st, written, outcome, prev, last, fs0, trail>>

NextRace ==
  \/ \E p \in Runs : RaceList(p)
  \/ \E p \in Runs : RaceWrite(p)

InitRace == InitRunOn(RaceJobs, 1, RaceFs)

SpecRace == InitRace /\ [][NextRace]_vars

(***************************************************************************)
(* pick_intro_outro called on its own, every folder it may turn to holding *)
(* one audio file.                                                         *)
(***************************************************************************)
PickFolders ==
  {"intro", "outro", "arg_intro", "arg_outro", "arg_both", "env_intro", "env_outro", "env_both"}

PickFs ==
  [q \in {DirPath(d) : d \in PickFolders} \cup {<<d, "clip.mp3">> : d \in PickFolders} |->
     IF q[1] = "." THEN DirEntry ELSE Good]

PickJobs ==
  {[fn |-> "pick_intro_outro", single_track |-> FALSE, intro_dir |-> a, outro_dir |-> b,
    intro_outro_dir |-> c] : a \in {"", "arg_intro"}, b \in {"", "arg_outro"}, c \in {"", "arg_both"}}

CallPickIntroOutro ==
  /\ Enter
  /\ job.fn = "pick_intro_outro"
  /\ Return(PickIntroOutroIn(fs, job.intro_dir, job.outro_dir, job.intro_outro_dir, env), <<>>)
  /\ UNCHANGED <<net, be, procs, env, job, budget, fs, force, st, last>>

NextPick == CallPickIntroOutro

InitPick == InitRunOn(PickJobs, 1, {PickFs})

SpecPick == InitPick /\ [][NextPick]_vars

(***************************************************************************)
(* The two combiners called on their own, on files that are there.         *)
(***************************************************************************)
CombineFs ==
  [q \in {DirPath(AudioRoot), DirPath(TmpDir), DirPath("intro"), DirPath("outro")}
          \cup {<<AudioRoot, "story.mp3">>, <<AudioRoot, "story.wav">>,
                 <<AudioRoot, "bridge.mp3">>, <<AudioRoot, "bridge.wav">>,
                 <<"intro", "theme.mp3">>, <<"intro", "theme.wav">>, <<"outro", "bye.mp3">>,
                 Join(TmpDir, "rick_line_0.mp3"), Join(TmpDir, "rick_line_1.mp3")} |->
     IF q \in {DirPath(AudioRoot), DirPath(TmpDir), DirPath("intro"), DirPath("outro")}
     THEN DirEntry ELSE Good]

CombineWithIntroOutroJobs ==
  {[fn |-> "combine_with_intro_outro", single_track |-> FALSE, main_file |-> m,
    intro_file |-> a, outro_file |-> o, bridge_file |-> b] :
     m \in {<<AudioRoot, "story.mp3">>, <<AudioRoot, "story.wav">>},
     a \in {NoPath, <<"intro", "theme.mp3">>, <<"intro", "theme.wav">>},
     o \in {NoPath, <<"outro", "bye.mp3">>},
     b \in {NoPath, <<AudioRoot, "bridge.mp3">>, <<AudioRoot, "bridge.wav">>}}

CombineMp3sJobs ==
  {JobOf("_combine_mp3s", <<>>, "", "", "", TRUE, FALSE, FALSE, fl) :
     fl \in {<<Join(TmpDir, "rick_line_0.mp3")>>,
              <<Join(TmpDir, "rick_line_0.mp3"), Join(TmpDir, "rick_line_1.mp3")>>}}

CallCombineWithIntroOutro ==
  /\ Enter
  /\ job.fn = "combine_with_intro_outro"
  /\ \E first_ok \in BOOLEAN, second_ok \in BOOLEAN :
       LET r == CombineWithIntroOutroBy(fs, job.main_file, job.intro_file, job.outro_file,
                                        job.bridge_file, env.pydub, first_ok, second_ok)
       IN /\ fs' = r.fs
          /\ last' = [NoStep EXCEPT !.step = "combine", !.mkdir = TRUE, !.proc = r.runs # <<>>,
                        !.runs = r.runs, !.listed = r.listed]
          /\ IF r.raised THEN Raise(r.exc) ELSE Return(<<r.out>>, <<>>)
  /\ UNCHANGED <<net, be, procs, env, job, budget, force, st>>

NextCombine ==
  \/ CallCombineMp3s
  \/ CallCombineWithIntroOutro

InitCombine == InitRunOn(CombineMp3sJobs \cup CombineWithIntroOutroJobs, 1, {CombineFs})

SpecCombine == InitCombine /\ [][NextCombine]_vars

(***************************************************************************)
(* create_dialogue_audio on scripts of one line, the line with a speaker   *)
(* prefix in any case, with or without the space after the colon, with no  *)
(* prefix, or with a prefix inside the text.                               *)
(***************************************************************************)
PrefixedLines ==
  {pre \o sep \o "hi" :
     pre \in {"Rick", "rick", "RICK", "Morty", "morty", "DJCARA", "djcara", "DJ Cara",
              "dj cara", "Cara", "cara", "Narrator"},
     sep \in {": ", ":", " : "}}

SpokenLines ==
  PrefixedLines \cup Lines \cup {"hi", "Narrator: ask Morty: why", "Morty: ask Rick: why"}

NextLines ==
  \/ CallCreateDialogueAudio
  \/ CdaLine
  \/ CdaReturn

InitLines == InitRun(CreateDialogueAudioJobs({<<l>> : l \in SpokenLines}), 1)

SpecLines == InitLines /\ [][NextLines]_vars

Next ==
  \/ CallCreateDialogueAudio
  \/ CdaLine
  \/ CdaReturn
  \/ CallRenderCombinedAudio
  \/ CallRenderSingleTrackText
  \/ SingleSynth
  \/ SingleFinish
  \/ RenderGroup
  \/ RenderCleanup
  \/ CallCombineMp3s

\* every job, run once
Init == InitRun(Jobs(ScriptsUpTo(MaxLines)), 1)

Spec == Init /\ [][Next]_vars

\* the jobs of short scripts, run MaxCalls times
InitTwice == InitRun(Jobs(ScriptsUpTo(MaxLinesTwice)), MaxCalls)

SpecTwice == InitTwice /\ [][Next]_vars

(***************************************************************************)
(* _group_line_files_by_speaker on lists of per-line files named as        *)
(* create_dialogue_audio names them (f"{character}_line_{i}.mp3"), for     *)
(* the first MaxIndex + 1 lines of a long script, in line order, any of    *)
(* the lines having been skipped.                                          *)
(***************************************************************************)
GroupLines == Lines

GroupInputs ==
  UNION {
    {[k \in 1..n |-> LineFilePath(TmpDir, ls[k], idx[k])] :
       ls \in [1..n -> GroupLines],
       idx \in {f \in [1..n -> 0..MaxIndex] : \A a, b \in 1..n : a < b => f[a] < f[b]}} :
    n \in 0..MaxFiles}

GroupJobs ==
  {JobOf("_group_line_files_by_speaker", <<>>, "", "", ds, TRUE, FALSE, FALSE, fl) :
     ds \in {"", "Host"}, fl \in GroupInputs}

InitGroup == InitRun(GroupJobs, 1)

GroupCall ==
  /\ pc = "idle"
  /\ ncalls < budget
  /\ job.fn = "_group_line_files_by_speaker"
  /\ LET items == GroupLineFilesBySpeaker(job.file_list, job.default_speaker)
     IN /\ grouped' = items
        /\ Return(items, <<>>)
  /\ prev' = outcome
  /\ UNCHANGED <<net, be, procs, env, job, budget, fs, i, audio_files, force, line_files, gi, final_paths,
                 tracks, st, written, last, fs0, trail>>

NextGroup == GroupCall

SpecGroup == InitGroup /\ [][NextGroup]_vars

(***************************************************************************)
(* The properties.                                                         *)
(***************************************************************************)
IsRender == job.fn \in {"render_combined_audio", "render_single_track_text"}

Finished == pc = "idle" /\ ncalls >= 1

\* an artifact that is on disk, of the minimum size, and decodes whenever
\* the decode probe is run
ValidOnDisk(p) ==
  /\ p \in DOMAIN fs
  /\ ~fs[p].dir
  /\ fs[p].size >= 1024
  /\ (env.pydub => fs[p].dec)

\* C1: in multi-track rendering the files combined into a speaker's track
\* are in the order in which that speaker's lines stand in the input script,
\* whatever the length of the script (line_files is in line order).
C1_GroupKeepsLineOrder ==
  (job.fn = "_group_line_files_by_speaker" /\ Finished) =>
    \A g \in 1..Len(grouped) :
      grouped[g][2] = FilesOfKey(job.file_list, grouped[g][1], job.default_speaker)

\* C2: a render job run twice into the same output directory returns, for
\* each label, two distinct final files whose ordinal strictly increases,
\* and the second run writes to no path the first run returned.
C2_OrdinalStrictlyIncreases ==
  (IsRender /\ pc = "idle" /\ ncalls >= 2
     /\ prev.status = "returned" /\ outcome.status = "returned") =>
    /\ \A a \in 1..Len(prev.tracks), b \in 1..Len(outcome.tracks) :
         prev.tracks[a].key = outcome.tracks[b].key =>
           /\ outcome.tracks[b].n > prev.tracks[a].n
           /\ outcome.tracks[b].path # prev.tracks[a].path
    /\ \A a \in 1..Len(prev.value) : prev.value[a] \notin written

\* C3: create_dialogue_audio never raises because of one line: it returns,
\* having gone through every line of the script.
C3_LineFailureNeverAborts ==
  (job.fn = "create_dialogue_audio" /\ Finished) =>
    /\ outcome.status = "returned"
    /\ i = Len(job.dialogue)

\* C4: what create_dialogue_audio returns is the list, in line order, of the
\* paths of exactly those lines for which the call wrote an artifact that is
\* valid; it is no longer than the script and holds no path of a missing or
\* invalid artifact.
C4_ReturnsValidatedPathsInOrder ==
  (job.fn = "create_dialogue_audio" /\ Finished /\ outcome.status = "returned") =>
    LET paths == [k \in 1..Len(job.dialogue) |->
                    Join(TmpDir, (IF SpeakerOf(job.dialogue[k]) # ""
                                  THEN SpeakerOf(job.dialogue[k]) ELSE "speaker")
                                 \o "_line_" \o IntToStr(k - 1) \o ".mp3")]
        ok(p) == p \in written /\ ValidOnDisk(p)
    IN /\ outcome.value = SelectSeq(paths, ok)
       /\ Len(outcome.value) <= Len(job.dialogue)
       /\ \A k \in 1..Len(outcome.value) : ValidOnDisk(outcome.value[k])

C4_Witness ==
  /\ job.fn = "create_dialogue_audio" /\ Finished /\ outcome.status = "returned"
  /\ Len(job.dialogue) = 2
  /\ Len(outcome.value) = 1
  /\ outcome.value[1] = Join(TmpDir, "morty_line_1.mp3")
  /\ Join(TmpDir, "rick_line_0.mp3") \in DOMAIN fs

\* C5: every path a render returns is the path of a file that is on disk
\* and passes artifact validation.
C5_ReturnedArtifactsAreValid ==
  (IsRender /\ Finished /\ outcome.status = "returned") =>
    \A k \in 1..Len(outcome.value) : ValidOnDisk(outcome.value[k])

\* C6: in the synthesis of a line and in the synthesis of the single track,
\* the local fallback is attempted if and only if the primary backend is
\* absent, raised, or produced an artifact that fails validation.
C6_FallbackExactlyWhenPrimaryFails ==
  last.step \in {"line", "single"} =>
    (last.fallback <=> last.primary \in {"absent", "raised", "invalid"})

\* C7: a multi-track render raises and writes no final artifact when no line
\* yields a valid artifact; when a line does, it returns at least one final
\* track.
C7_OnlyTotalFailureIsFatal ==
  (job.fn = "render_combined_audio" /\ ~job.single_track /\ Finished) =>
    IF audio_files = <<>>
    THEN /\ outcome.status = "raised"
         /\ \A p \in written : Dirname(p) # AudioRoot
    ELSE /\ outcome.status = "returned"
         /\ Len(outcome.value) >= 1

\* C8: _combine_mp3s of the empty list raises ValueError, having made no
\* directory, written no file and run no external tool, with the audio
\* library or without it.
C8_EmptyListRaisesFirst ==
  (job.fn = "_combine_mp3s" /\ job.file_list = <<>> /\ Finished) =>
    /\ outcome.status = "raised"
    /\ outcome.exc = "ValueError"
    /\ fs = EmptyFs
    /\ ~last.mkdir
    /\ ~last.proc

C8_Witness ==
  /\ job.fn = "_combine_mp3s" /\ job.file_list = <<>> /\ Finished
  /\ outcome.status = "raised"
  /\ ~env.pydub

RoundTrip == <<"Rick: Hello *burp* world", "Morty: Oh geez">>

IsRoundTrip ==
  /\ job.fn = "render_combined_audio" /\ ~job.single_track
  /\ job.dialogue = RoundTrip
  /\ Len(line_files) = 2

\* C9 (as amended): for the round-trip script with both lines synthesized,
\* the per-line artifacts are rick_line_0.mp3 and morty_line_1.mp3 (the
\* index is the position of the line in the script), they fall into the
\* two groups rick and morty, and the render, when it returns, returns
\* exactly two final files, the first prefixed rick_, the second morty_.
C9_RoundTripNamesByLineIndex ==
  IsRoundTrip =>
    /\ line_files = <<Join(TmpDir, "rick_line_0.mp3"), Join(TmpDir, "morty_line_1.mp3")>>
    /\ grouped = << <<"rick", <<Join(TmpDir, "rick_line_0.mp3")>> >>,
                    <<"morty", <<Join(TmpDir, "morty_line_1.mp3")>> >> >>
    /\ (Finished /\ outcome.status = "returned") =>
         /\ Len(outcome.value) = 2
         /\ Dirname(outcome.value[1]) = AudioRoot
         /\ StartsWith(Basename(outcome.value[1]), "rick_")
         /\ Dirname(outcome.value[2]) = AudioRoot
         /\ StartsWith(Basename(outcome.value[2]), "morty_")

C9_Witness ==
  IsRoundTrip /\ Finished /\ outcome.status = "returned"

\* C9 (as claimed): for the round-trip script with both lines synthesized,
\* the per-line artifacts are named rick_line_0.* and morty_line_0.*.
C9_RoundTripNamesAsClaimed ==
  IsRoundTrip =>
    /\ StartsWith(Basename(line_files[1]), "rick_line_0.")
    /\ StartsWith(Basename(line_files[2]), "morty_line_0.")

\* C10: render_single_track_text with the label djcara returns exactly one
\* final artifact, in the output directory, named
\* djcara_{sanitized title}_{date token}{ordinal}.mp3, with the backend
\* configured, absent or failing.
C10_DjcaraSingleTrackReturnsOneFile ==
  (job.fn = "render_single_track_text" /\ job.label = "djcara" /\ Finished) =>
    /\ outcome.status = "returned"
    /\ Len(outcome.value) = 1
    /\ \E n \in 1..MaxCalls :
         outcome.value[1] =
           Join(AudioRoot, "djcara_" \o SafeTitle \o "_" \o TodayToken \o Ordinal(n) \o ".mp3")

\* apply_intro_outro_to_files has ended
ApplyDone == pc = "idle" /\ outcome.fn = "apply_intro_outro_to_files"

\* no file of the folder d has the extension of an audio file
NoAudioIn(f, d) ==
  \A q \in DOMAIN f :
    q[1] = d => \/ f[q].dir
                \/ Lower(Suffix(q[2])) \notin {".mp3", ".wav", ".ogg", ".m4a", ".flac"}

\* the folders given to the call held no audio file when it started
NoAudioGiven ==
  IF job.intro_dir # ""
  THEN NoAudioIn(fs0, job.intro_dir) /\ NoAudioIn(fs0, job.outro_dir)
  ELSE NoAudioIn(fs0, job.intro_outro_dir)

\* the call returned its input list, synthesized nothing and left every file
\* as it was
IsNoOp ==
  /\ outcome.status = "returned"
  /\ outcome.value = job.file_list
  /\ written = {}
  /\ fs = fs0

\* C11 (as claimed): when the intro and outro directories given to
\* apply_intro_outro_to_files contain no audio file, it returns the input
\* list unchanged, does not raise, synthesizes no bridge even if a bridge text
\* is supplied, and creates, modifies or deletes no file.
C11_NoAssetsGivenIsNoOp ==
  (ApplyDone /\ NoAudioGiven) => IsNoOp

\* C11 (as amended): the same, when moreover the folder intro_outros of the
\* working directory holds no audio file; pick_intro_outro looks there when
\* the directories given hold none.
C11_NoAssetsAnywhereIsNoOp ==
  (ApplyDone /\ NoAudioGiven /\ NoAudioIn(fs0, "intro_outros")) => IsNoOp

C11_Witness ==
  /\ ApplyDone /\ NoAudioGiven /\ NoAudioIn(fs0, "intro_outros")
  /\ <<"intro", "notes.txt">> \in DOMAIN fs0
  /\ job.bridge_text # ""
  /\ job.file_list = <<<<"out", "story.mp3">>>>
  /\ outcome.value = job.file_list

\* C12: _is_valid_mp3 returns true exactly when the file exists, has at
\* least 1024 bytes and decodes (the decoding tried only with the audio
\* library); it does not raise and leaves the file system as it was, a second
\* validation gives the answer of the first, and a file under 1024 bytes is
\* invalid whatever its extension.
C12_ValidationIsPurePredicate ==
  (job.fn = "_is_valid_mp3" /\ Finished) =>
    LET q == job.file_list[1]
    IN /\ outcome.status = "returned"
       /\ outcome.value = << /\ q \in DOMAIN fs0
                             /\ fs0[q].size >= 1024
                             /\ (env.pydub => fs0[q].dec) >>
       /\ fs = fs0
       /\ (ncalls >= 2 => prev.value = outcome.value)
       /\ ((q \in DOMAIN fs /\ fs[q].size < 1024) => outcome.value = <<FALSE>>)

C12_Witness ==
  /\ job.fn = "_is_valid_mp3" /\ Finished
  /\ ncalls = 2
  /\ env.pydub
  /\ job.file_list[1] \in DOMAIN fs
  /\ fs[job.file_list[1]].size = 1024
  /\ outcome.value = <<TRUE>>

\* the name create_dialogue_audio is to give the line at position k of the
\* script (lines of the persona djcara apart, on which it raises)
NameByIndexAndSpeaker(line, k) ==
  (IF line = "Rick: Hello *burp* world" THEN "rick"
   ELSE IF line = "Morty: Oh geez" THEN "morty" ELSE "speaker")
    \o "_line_" \o IntToStr(k - 1) \o ".mp3"

\* on every line the primary backend raised and the fallback made the artifact
AllFromFallback ==
  /\ Len(trail) = Len(job.dialogue)
  /\ \A k \in 1..Len(trail) : trail[k].primary = "raised" /\ trail[k].source = "fallback"

\* on every line the primary backend made the artifact
AllFromPrimary ==
  /\ Len(trail) = Len(job.dialogue)
  /\ \A k \in 1..Len(trail) : trail[k].source = "primary"

\* C13: the list create_dialogue_audio returns when the primary backend
\* raised on every line and the fallback made every artifact is the list it
\* returns when the primary backend made every artifact: in both cases the
\* name of each line's file is given by the line's index and speaker alone.
C13_FallbackGivesTheSameNames ==
  (job.fn = "create_dialogue_audio" /\ Finished /\ outcome.status = "returned"
     /\ (AllFromFallback \/ AllFromPrimary)) =>
    outcome.value = [k \in 1..Len(job.dialogue) |->
                       <<"out/.tmp", NameByIndexAndSpeaker(job.dialogue[k], k)>>]

C13_Witness ==
  /\ job.fn = "create_dialogue_audio" /\ Finished /\ outcome.status = "returned"
  /\ AllFromFallback
  /\ job.dialogue = <<"so anyway", "Rick: Hello *burp* world">>
  /\ Len(outcome.value) = 2

\* C14: no step of the pipeline deletes a final artifact an earlier render
\* returned: while apply_intro_outro_to_files runs after a render that
\* returned, and when it is over, every file that render returned is still
\* on the disk.
C14_EarlierFinalsAreNeverDeleted ==
  (job.fn = "apply_intro_outro_to_files" /\ prev.fn = "render_single_track_text"
     /\ prev.status = "returned") =>
    \A k \in 1..Len(prev.value) : Exists(fs, prev.value[k])

IsSynthesize == job.fn = "synthesize"

\* C15: the output synthesize sends a download request for was not listed
\* when the request was submitted, and is not the one that was the latest
\* when the snapshot was taken, whether or not the snapshot request or a
\* poll request failed.
C15_DownloadsOnlyWhatCameAfterTheRequest ==
  (IsSynthesize /\ be.gets >= 1) =>
    (be.candidate > be.at_post /\ be.candidate # be.at_snapshot)

\* C16: once the submission was answered with a status of 400 or more,
\* synthesize is over with RuntimeError, no poll request and no download
\* request was sent, and the disk is as it was when the call started.
C16_RejectionRaisesAtOnce ==
  (IsSynthesize /\ be.status >= 400) =>
    /\ pc = "idle" /\ outcome.status = "raised" /\ outcome.exc = "RuntimeError"
    /\ be.polls = 0 /\ be.gets = 0
    /\ fs = fs0

C16_Witness ==
  /\ IsSynthesize /\ be.status = 404 /\ pc = "idle" /\ outcome.status = "raised"
  /\ Exists(fs, OutPath)

\* the request was submitted, no poll timeout is set, and the server lists
\* an output it did not list when the request was submitted
NewOutputListed ==
  /\ IsSynthesize /\ be.event \notin {"", "snapshot", "snapshot_error"}
  /\ PollTimeout(env) = NoTimeout
  /\ net.outputs > be.at_post

\* C17: a request that fails at the submission leaves synthesize polling, and
\* so does one that fails in a poll (unless the poll timeout is over); with
\* no poll timeout, once the server lists a new output, synthesize leaves the
\* polling loop with that output and sends a download request for it.
C17_TransientErrorsDoNotAbort ==
  /\ []((IsSynthesize /\ be.event = "post_error") => pc = "be_poll")
  /\ []((IsSynthesize /\ be.event = "poll_error") =>
          \/ pc = "be_poll"
          \/ PollTimeout(env) # NoTimeout /\ be.elapsed >= PollTimeout(env))
  /\ (NewOutputListed ~> (be.candidate > be.at_post /\ be.gets >= 1))

\* C18: with a retry bound k > 0 at most k download requests are sent and k
\* failed ones end the call with RuntimeError; with the bound unset or 0 a
\* failed request is followed by another and never by RuntimeError; and the
\* first request that is answered is the last one: when the call returns, it
\* returns out_path and the last request is the one that was answered.
C18_DownloadRetryIsBounded ==
  IsSynthesize =>
    LET k == IF env.CHATTERBOX_DOWNLOAD_RETRIES = Unset THEN 0
             ELSE CHOOSE n \in 0..9 : IntToStr(n) = env.CHATTERBOX_DOWNLOAD_RETRIES
    IN /\ k > 0 => /\ be.gets <= k
                   /\ be.fails = k => (pc = "idle" /\ outcome.status = "raised"
                                       /\ outcome.exc = "RuntimeError")
                   /\ (be.event = "get_error" /\ be.fails < k) => pc = "be_download"
       /\ k = 0 => (be.event = "get_error" => pc = "be_download")
       /\ be.event = "get" => pc = "idle"
       /\ (pc = "idle" /\ outcome.status = "returned") =>
            (outcome.value = <<OutPath>> /\ be.event = "get")

C18_Witness ==
  /\ IsSynthesize /\ env.CHATTERBOX_DOWNLOAD_RETRIES = "2"
  /\ be.fails = 2 /\ be.gets = 2
  /\ pc = "idle" /\ outcome.status = "raised"

\* C19: when synthesize has returned, out_path is the one path of the disk
\* that changed; when it has raised, the disk is as it was when the call
\* started: out_path holds nothing new.
C19_WritesOnlyOnSuccess ==
  (IsSynthesize /\ pc = "idle" /\ ncalls >= 1) =>
    IF outcome.status = "returned"
    THEN /\ Exists(fs, OutPath)
         /\ DOMAIN fs = DOMAIN fs0 \cup {OutPath}
         /\ \A q \in DOMAIN fs0 \ {OutPath} : fs[q] = fs0[q]
    ELSE fs = fs0

\* the name a run is to choose when it saw the listing seen: the ordinal of
\* one more than the finals of the label and the day in it
NameAfter(seen) ==
  LET k == Cardinality({x \in seen : StartsWith(x, "narrator_") /\ Contains(x, "_04 nov_")
                                       /\ EndsWith(x, ".mp3")})
  IN "narrator_" \o SafeTitle \o "_04 nov_"
       \o (CASE k = 0 -> "1st" [] k = 1 -> "2nd" [] k = 2 -> "3rd" [] OTHER -> IntToStr(k + 1) \o "th")
       \o ".mp3"

\* C20: nothing keeps two renders of one label and day apart: each names its
\* final artifact after the listing it saw, so two runs that listed the
\* directory before either wrote chose the same name, and once both have
\* written under that name the artifact of the one that wrote first is gone.
C20_ConcurrentRendersShareTheOrdinal ==
  \A p \in DOMAIN procs :
    /\ procs[p].path = <<AudioRoot, NameAfter(procs[p].seen)>>
    /\ \A q \in DOMAIN procs \ {p} :
         /\ procs[p].seen = procs[q].seen =>
              (procs[p].n = procs[q].n /\ procs[p].path = procs[q].path)
         /\ (procs[p].pc = "done" /\ procs[q].pc = "done" /\ procs[p].path = procs[q].path
               /\ procs[p].stamp < procs[q].stamp) =>
              \A x \in DOMAIN fs : fs[x] # TakeOf(p)

C20_Witness ==
  /\ DOMAIN procs = {1, 2}
  /\ procs[1].seen = procs[2].seen
  /\ procs[1].pc = "done" /\ procs[2].pc = "done"
  /\ procs[1].stamp = 1 /\ procs[2].stamp = 2
  /\ procs[1].path = procs[2].path
  /\ fs[procs[1].path] = TakeOf(2)
  /\ \A x \in DOMAIN fs : fs[x] # TakeOf(1)
  /\ Cardinality(DOMAIN fs) = Cardinality(DOMAIN fs0) + 1

\* the folder the documented priority gives: the argument, then the
\* variable INTRO_OUTRO_DIR, then the variable of the part, then the default
DocumentedDir(arg, both, own, default) ==
  IF arg # "" THEN arg ELSE IF both # "" THEN both ELSE IF own # "" THEN own ELSE default

\* C21: pick_intro_outro takes the intro from the folder given by the
\* priority of its docstring (the argument intro_dir, then INTRO_OUTRO_DIR
\* of the environment, then INTRO_DIR, then ./intro), and the outro likewise.
C21_FoldersFollowTheDocumentedPriority ==
  (job.fn = "pick_intro_outro" /\ Finished) =>
    /\ outcome.value[1] =
         <<DocumentedDir(job.intro_dir, env.INTRO_OUTRO_DIR, env.INTRO_DIR, "intro"), "clip.mp3">>
    /\ outcome.value[2] =
         <<DocumentedDir(job.outro_dir, env.INTRO_OUTRO_DIR, env.OUTRO_DIR, "outro"), "clip.mp3">>

\* the segments of a call of combine_with_intro_outro in the order intro,
\* bridge, main, outro, those that are absent left out
InOrder ==
  SelectSeq(<<job.intro_file, job.bridge_file>>, LAMBDA q : q # <<"", "">>)
    \o <<job.main_file>>
    \o SelectSeq(<<job.outro_file>>, LAMBDA q : q # <<"", "">>)

\* C22: every run of a tool combine_with_intro_outro makes (the export of
\* the library, the copy of the streams of the concat list, the re-encoding)
\* takes the segments in the order intro, bridge, main, outro, those that
\* are absent left out and the main file there once.
C22_SegmentsAreInOrder ==
  (job.fn = "combine_with_intro_outro" /\ Finished) =>
    \A k \in 1..Len(last.runs) : last.runs[k].inputs = InOrder

C22_Witness ==
  /\ job.fn = "combine_with_intro_outro" /\ Finished /\ outcome.status = "returned"
  /\ Len(last.runs) = 2 /\ last.runs[2].strategy = "reencode"
  /\ Len(last.runs[2].inputs) = 4

\* C24: on the process path of either combiner the first run copies the
\* streams; when it fails, one re-encoding run over the same inputs in the
\* same order follows; and the combiner raises exactly when the last of its
\* runs failed.
C24_FailedCopyIsFollowedByReencoding ==
  (job.fn \in {"_combine_mp3s", "combine_with_intro_outro"} /\ Finished /\ ~env.pydub
     /\ last.runs # <<>>) =>
    /\ last.runs[1].strategy = "copy"
    /\ last.runs[1].ok => Len(last.runs) = 1
    /\ ~last.runs[1].ok =>
         /\ Len(last.runs) = 2
         /\ last.runs[2].strategy = "reencode"
         /\ last.runs[2].inputs = last.runs[1].inputs
    /\ outcome.status = "raised" <=> ~last.runs[Len(last.runs)].ok

\* C25: without the library, when one of the intro, the bridge, the main file
\* and the outro given to combine_with_intro_outro is not an .mp3 file, the
\* call raises RuntimeError with no concat list written and no tool run.
C25_WithoutLibraryEveryInputMustBeMp3 ==
  (job.fn = "combine_with_intro_outro" /\ Finished /\ ~env.pydub
     /\ \E q \in {job.intro_file, job.bridge_file, job.main_file, job.outro_file} :
          q # <<"", "">> /\ ~EndsWith(q[2], ".mp3")) =>
    /\ outcome.status = "raised" /\ outcome.exc = "RuntimeError"
    /\ last.runs = <<>> /\ ~last.listed

\* C23: when apply_intro_outro_to_files is over, whether it returned or a
\* combination raised, no bridge artifact it synthesized is left: every file
\* named as a bridge in the output directory was there, as it is, before the
\* call.
C23_NoBridgeIsLeftBehind ==
  ApplyDone =>
    \A q \in DOMAIN fs :
      (q[1] = AudioRoot /\ Contains(q[2], "_bridge_")) => (q \in DOMAIN fs0 /\ fs[q] = fs0[q])

\* C26: after a render that returned, with cleanup_parts the temporary
\* directory and all it held are gone; without cleanup_parts, in either
\* mode, the temporary directory is still there and so is every file that
\* was in it when the call started.
C26_TemporaryArtifactsFollowTheLifecycle ==
  (IsRender /\ Finished /\ outcome.status = "returned") =>
    IF job.cleanup_parts
    THEN \A q \in DOMAIN fs : q[1] # "out/.tmp" /\ q # <<"out", ".tmp">>
    ELSE /\ <<"out", ".tmp">> \in DOMAIN fs
         /\ \A q \in DOMAIN fs0 : q[1] = "out/.tmp" => q \in DOMAIN fs

\* the speaker label under which a per-line file was generated: the
\* character of its name, the generic one replaced by the default speaker
GeneratedLabel(fp, default_speaker) ==
  LET base == Basename(fp)
  IN IF StartsWith(base, "rick_") THEN "rick"
     ELSE IF StartsWith(base, "morty_") THEN "morty"
     ELSE IF StartsWith(base, "djcara_") THEN "djcara"
     ELSE Lower(IF default_speaker # "" THEN default_speaker ELSE "speaker")

C28_SingleTrackFallsBackToPerLine ==
  (/\ IsRender /\ job.single_track /\ Finished
   /\ last.step = "single" /\ last.primary \in {"absent", "raised"}
   /\ outcome.status = "returned") =>
    /\ Len(outcome.value) = 1
    /\ line_files # <<>>

C30_DetectionAndStrippingAgree ==
  (job.fn = "create_dialogue_audio" /\ last.step = "line" /\ last.spoken # <<>>) =>
    LET line == job.dialogue[i]
        text == last.spoken[1]
    IN IF SpeakerOf(line) # ""
       THEN ~StartsWith(text, BeforeFirst(line, ":") \o ":")
       ELSE text = line

====
